---- MODULE Spec2Model ----
(***************************************************************************)
(* A model of the file-explorer hub server (server/index.ts): the Auth     *)
(* Gate, the device registry persisted in devices.json and the             *)
(* /api/d/:deviceId/* router.                                              *)
(*                                                                         *)
(* Strings of the program are modelled as sequences of one-character       *)
(* strings, so that trim(), toLowerCase(), startsWith() and the slug       *)
(* regexes are computed character by character.  A field that is           *)
(* `undefined` in the program holds the value Undef.                       *)
(***************************************************************************)
EXTENDS Integers, Sequences, FiniteSets, TLC

VARIABLES
    env,          \* process.env at start-up: the three token variables
    devicesFile,  \* the parsed content of devices.json
    settingsFile, \* the parsed content of settings.json
    pending,      \* handlers suspended at an await (probe or body read)
    req,          \* the request answered by the last step
    res,          \* the response given by the last step
    ran,          \* the route handlers the last step entered, in order
    net,          \* the outbound fetches / ssh processes the last step started
    got,          \* how the outbound call awaited by the last step ended
    touched,      \* the real filesystem paths the last step handed to fs calls
    recentFiles   \* the in-memory list of recently tracked files

vars == <<env, devicesFile, settingsFile, pending, req, res, ran, net, got, touched,
          recentFiles>>

-----------------------------------------------------------------------------
(* Bounds of the model *)

\* the most devices the registry file is let grow to
MaxDevices == 2
\* the most handlers suspended at an await at the same time
MaxPending == 2
\* Date.now() is drawn from 1..MaxNow
MaxNow == 1
\* the largest latency, in milliseconds, a health check measures
MaxLatency == 1
\* the capacity of the recent list (50 in the source), small enough to fill
MAX_RECENT == 3
\* the longest timeout of an ssh call, in ticks of the clock
MaxTimeout == 2

-----------------------------------------------------------------------------
(* Strings *)

Undef == <<"undefined">>

LowerLetters == {"a","b","c","d","e","f","g","h","i","j","k","l","m",
                 "n","o","p","q","r","s","t","u","v","w","x","y","z"}
Digits == {"0","1","2","3","4","5","6","7","8","9"}

\* String.prototype.toLowerCase on one character of the model's alphabet
LowerChar(ch) ==
    CASE ch = "A" -> "a" [] ch = "B" -> "b" [] ch = "C" -> "c"
      [] ch = "L" -> "l" [] ch = "O" -> "o" [] ch = "E" -> "e"
      [] ch = "R" -> "r" [] OTHER -> ch

ToLowerCase(s) == [i \in 1..Len(s) |-> LowerChar(s[i])]

RECURSIVE TrimStart(_)
TrimStart(s) ==
    IF s # <<>> /\ Head(s) = " " THEN TrimStart(Tail(s)) ELSE s

RECURSIVE TrimEnd(_)
TrimEnd(s) ==
    IF s # <<>> /\ s[Len(s)] = " " THEN TrimEnd(SubSeq(s, 1, Len(s) - 1)) ELSE s

\* String.prototype.trim
Trim(s) == TrimEnd(TrimStart(s))

StartsWith(s, p) == Len(s) >= Len(p) /\ SubSeq(s, 1, Len(p)) = p

\* s.slice(n)
Slice(s, n) == SubSeq(s, n + 1, Len(s))

\* JavaScript truthiness of an optional string
Truthy(s) == s # Undef /\ s # <<>>

\* (s || "")
OrEmpty(s) == IF Truthy(s) THEN s ELSE <<>>

\* (s || null)
OrEmptyToUndef(s) == IF Truthy(s) THEN s ELSE Undef

-----------------------------------------------------------------------------
(* String literals of the program, spelled out *)

sBearerLower == <<"b","e","a","r","e","r"," ">>      \* "bearer "
sBearer      == <<"B","e","a","r","e","r"," ">>      \* "Bearer "
sLocal       == <<"l","o","c","a","l">>              \* "local"
sDevicePfx   == <<"d","e","v","i","c","e","-">>      \* "device-"
sDefaultIcon == <<"p","c">>                          \* the default icon glyph
sSlash       == <<"/">>

\* path segments
segApi     == <<"a","p","i">>
segAuth    == <<"a","u","t","h">>
segStatus  == <<"s","t","a","t","u","s">>
segDevices == <<"d","e","v","i","c","e","s">>
segD       == <<"d">>
segFiles   == <<"f","i","l","e","s">>
segMkdir   == <<"m","k","d","i","r">>
segDownload == <<"d","o","w","n","l","o","a","d">>
segRecent == <<"r","e","c","e","n","t">>
segSettings == <<"s","e","t","t","i","n","g","s">>
segHealth  == <<"h","e","a","l","t","h">>
segCombos  == <<"c","o","m","b","o","s">>

-----------------------------------------------------------------------------
(* Configuration read from the environment at start-up *)

LEGACY_API_TOKEN == Trim(OrEmpty(env.FILE_EXPLORER_API_TOKEN))

ADMIN_API_TOKEN ==
    Trim(IF Truthy(env.FILE_EXPLORER_ADMIN_TOKEN)
         THEN env.FILE_EXPLORER_ADMIN_TOKEN
         ELSE LEGACY_API_TOKEN)

READ_API_TOKEN == Trim(OrEmpty(env.FILE_EXPLORER_READ_TOKEN))

AUTH_ENABLED == ADMIN_API_TOKEN # <<>> \/ READ_API_TOKEN # <<>>

-----------------------------------------------------------------------------
(* Auth helpers *)

normalizeBearer(token) ==
    IF StartsWith(token, sBearer) THEN token ELSE sBearer \o token

\* the channels are read in the opposite order
TokenFromQueryFirst(r) ==
    LET urlToken == Trim(OrEmpty(r.qtoken))
        customHeader == Trim(OrEmpty(r.xtoken))
        authHeader == Trim(OrEmpty(r.authorization))
    IN  IF urlToken # <<>> THEN urlToken
        ELSE IF customHeader # <<>> THEN customHeader
        ELSE IF StartsWith(ToLowerCase(authHeader), sBearerLower)
             THEN OrEmptyToUndef(Trim(Slice(authHeader, 7)))
        ELSE Undef

getTokenFromRequest(r) ==
    LET authHeader == Trim(OrEmpty(r.authorization))
        customHeader == Trim(OrEmpty(r.xtoken))
        urlToken == Trim(OrEmpty(r.qtoken))
    IN  IF StartsWith(ToLowerCase(authHeader), sBearerLower)
        THEN OrEmptyToUndef(Trim(Slice(authHeader, 7)))
        ELSE IF customHeader # <<>> THEN customHeader
        ELSE IF urlToken # <<>> THEN urlToken
        ELSE Undef

\* the read token is compared first
getAuthRoleReadFirst(token) ==
    IF ~AUTH_ENABLED THEN "admin"
    ELSE IF Truthy(token) /\ READ_API_TOKEN # <<>> /\ token = READ_API_TOKEN THEN "read"
    ELSE IF Truthy(token) /\ ADMIN_API_TOKEN # <<>> /\ token = ADMIN_API_TOKEN THEN "admin"
    ELSE "none"

getAuthRole(token) ==
    IF ~AUTH_ENABLED THEN "admin"
    ELSE IF Truthy(token) /\ ADMIN_API_TOKEN # <<>> /\ token = ADMIN_API_TOKEN THEN "admin"
    ELSE IF Truthy(token) /\ READ_API_TOKEN # <<>> /\ token = READ_API_TOKEN THEN "read"
    ELSE "none"

\* the caller's token is preferred to the explicit one
getForwardAuthHeaderCallerFirst(r, explicitToken) ==
    LET token == Trim(OrEmpty(explicitToken))
        incomingToken == getTokenFromRequest(r)
    IN  IF Truthy(incomingToken) THEN normalizeBearer(incomingToken)
        ELSE IF token # <<>> THEN normalizeBearer(token)
        ELSE IF ADMIN_API_TOKEN # <<>> THEN normalizeBearer(ADMIN_API_TOKEN)
        ELSE Undef

getForwardAuthHeader(r, explicitToken) ==
    LET token == Trim(OrEmpty(explicitToken))
        incomingToken == getTokenFromRequest(r)
    IN  IF token # <<>> THEN normalizeBearer(token)
        ELSE IF Truthy(incomingToken) THEN normalizeBearer(incomingToken)
        ELSE IF ADMIN_API_TOKEN # <<>> THEN normalizeBearer(ADMIN_API_TOKEN)
        ELSE Undef

\* only POST counts as a write
IsWritePostOnly(method) == method = "POST"

IsWrite(method) == method # "GET" /\ method # "HEAD" /\ method # "OPTIONS"

\* a request without a role is let through
AuthMiddlewareFailOpen(r) ==
    IF r.path = <<segApi, segAuth, segStatus>> THEN 0
    ELSE IF ~AUTH_ENABLED THEN 0
    ELSE LET role == getAuthRole(getTokenFromRequest(r))
         IN  IF role = "none" THEN 0
             ELSE IF IsWrite(r.method) /\ role # "admin" THEN 403
             ELSE 0

\* app.use("/api/*"): 0 when next() is called, else the status answered
AuthMiddleware(r) ==
    IF r.path = <<segApi, segAuth, segStatus>> THEN 0
    ELSE IF ~AUTH_ENABLED THEN 0
    ELSE LET role == getAuthRole(getTokenFromRequest(r))
         IN  IF role = "none" THEN 401
             ELSE IF IsWrite(r.method) /\ role # "admin" THEN 403
             ELSE 0

-----------------------------------------------------------------------------
(* Device registry: helpers *)

\* body.f, Undef when the JSON body has no such key
Field(body, f) == IF f \in DOMAIN body THEN body[f] ELSE Undef

IsAlnum(ch) == ch \in LowerLetters \/ ch \in Digits

RECURSIVE DropNonAlnum(_)
DropNonAlnum(s) ==
    IF s # <<>> /\ ~IsAlnum(Head(s)) THEN DropNonAlnum(Tail(s)) ELSE s

\* .replace(/[^a-z0-9]+/g, "-")
RECURSIVE HyphenateRuns(_)
HyphenateRuns(s) ==
    IF s = <<>> THEN <<>>
    ELSE IF IsAlnum(Head(s)) THEN <<Head(s)>> \o HyphenateRuns(Tail(s))
    ELSE <<"-">> \o HyphenateRuns(DropNonAlnum(Tail(s)))

\* .replace(/(^-|-$)/g, "")
StripEdgeHyphens(s) ==
    LET a == IF s # <<>> /\ Head(s) = "-" THEN Tail(s) ELSE s
    IN  IF a # <<>> /\ a[Len(a)] = "-" THEN SubSeq(a, 1, Len(a) - 1) ELSE a

\* name.toLowerCase().replace(/[^a-z0-9]+/g, "-").replace(/(^-|-$)/g, "")
Slugify(name) == StripEdgeHyphens(HyphenateRuns(ToLowerCase(name)))

\* ... || `device-${Date.now()}`
\* an empty slug is kept as the id
DeviceIdNoFallback(name, now) == Slugify(name)

DeviceId(name, now) ==
    IF Slugify(name) # <<>> THEN Slugify(name) ELSE sDevicePfx \o <<ToString(now)>>

\* url.replace(/\/+$/, "")
RECURSIVE StripTrailingSlashes(_)
StripTrailingSlashes(u) ==
    IF u # <<>> /\ u[Len(u)] = "/"
    THEN StripTrailingSlashes(SubSeq(u, 1, Len(u) - 1)) ELSE u

\* typeof authToken === "string" && authToken.trim() ? authToken.trim() : undefined
CleanToken(t) == IF t # Undef /\ Trim(t) # <<>> THEN Trim(t) ELSE Undef

\* hasAuthToken is added and authToken is not dropped
toPublicDeviceLeaky(device) ==
    [f \in DOMAIN device \cup {"hasAuthToken"} |->
        IF f = "hasAuthToken" THEN Truthy(device.authToken) ELSE device[f]]

toPublicDevice(device) ==
    [f \in (DOMAIN device \ {"authToken"}) \cup {"hasAuthToken"} |->
        IF f = "hasAuthToken" THEN Truthy(device.authToken) ELSE device[f]]

HasId(devices, id) == \E i \in 1..Len(devices) : devices[i].id = id

\* devices.findIndex((d) => d.id === id), 0 for -1
FindIndex(devices, id) ==
    IF HasId(devices, id)
    THEN CHOOSE i \in 1..Len(devices) :
            devices[i].id = id /\ \A j \in 1..(i - 1) : devices[j].id # id
    ELSE 0

\* devices.filter((d) => d.id !== id)
RECURSIVE FilterOut(_, _)
\* the match is dropped together with everything stored after it
FilterOutFrom(devices, id) ==
    IF FindIndex(devices, id) = 0 THEN devices
    ELSE SubSeq(devices, 1, FindIndex(devices, id) - 1)

FilterOut(devices, id) ==
    IF devices = <<>> THEN <<>>
    ELSE IF Head(devices).id = id THEN FilterOut(Tail(devices), id)
    ELSE <<Head(devices)>> \o FilterOut(Tail(devices), id)

\* the local device's display name and icon (no settings override)
sHostname == <<"h","u","b">>

\* loadSettings(): the local name and icon; Undef when not set
loadSettings == settingsFile

getLocalName ==
    IF Truthy(loadSettings.localName) THEN loadSettings.localName ELSE sHostname

getLocalIcon ==
    IF Truthy(loadSettings.localIcon) THEN loadSettings.localIcon ELSE sDefaultIcon

\* the local entry does not follow the settings
LocalDeviceFixed ==
    [id |-> sLocal, name |-> sHostname, url |-> <<>>, icon |-> sDefaultIcon,
     enabled |-> TRUE, isLocal |-> TRUE]

LocalDevice ==
    [id |-> sLocal, name |-> getLocalName, url |-> <<>>, icon |-> getLocalIcon,
     enabled |-> TRUE, isLocal |-> TRUE]

\* the body of GET /api/devices
ListBody(devices) ==
    [devices |-> <<LocalDevice>> \o [i \in 1..Len(devices) |-> toPublicDevice(devices[i])]]

-----------------------------------------------------------------------------
(* Responses *)

RespondAfter(outcome, r, status, body, handlers, calls) ==
    /\ req' = r
    /\ res' = [status |-> status, body |-> body]
    /\ ran' = handlers
    /\ net' = calls
    /\ got' = outcome
    /\ touched' = <<>>
    /\ recentFiles' = recentFiles

Respond(r, status, body, handlers, calls) ==
    RespondAfter("none", r, status, body, handlers, calls)

Err(msg) == [error |-> msg]

\* the middleware answered: no handler is entered, nothing else changes
Denied(r) ==
    /\ AuthMiddleware(r) # 0
    /\ Respond(r, AuthMiddleware(r),
               IF AuthMiddleware(r) = 401 THEN Err("Unauthorized")
               ELSE Err("Admin token required for write operations"),
               <<>>, <<>>)
    /\ UNCHANGED <<env, settingsFile, devicesFile, pending>>

Passed(r) == AuthMiddleware(r) = 0

RemoveAt(q, i) == SubSeq(q, 1, i - 1) \o SubSeq(q, i + 1, Len(q))

-----------------------------------------------------------------------------
(* Route matching (method and path pattern of each registered handler) *)

IsAuthStatus(r)   == r.method = "GET" /\ r.path = <<segApi, segAuth, segStatus>>
IsGetDevices(r)   == r.method = "GET" /\ r.path = <<segApi, segDevices>>
IsPostDevices(r)  == r.method = "POST" /\ r.path = <<segApi, segDevices>>
IsPutDevice(r)    == r.method = "PUT" /\ Len(r.path) = 3
                     /\ SubSeq(r.path, 1, 2) = <<segApi, segDevices>>
IsDeleteDevice(r) == r.method = "DELETE" /\ Len(r.path) = 3
                     /\ SubSeq(r.path, 1, 2) = <<segApi, segDevices>>
IsProxy(r)        == Len(r.path) >= 4 /\ SubSeq(r.path, 1, 2) = <<segApi, segD>>
IsLocalFileApi(r) == \/ r.method = "GET" /\ r.path = <<segApi, segFiles>>
                     \/ r.method = "GET" /\ r.path = <<segApi, segDownload>>
                     \/ r.method = "POST" /\ r.path = <<segApi, segMkdir>>
IsGetRecent(r)    == r.method = "GET" /\ r.path = <<segApi, segRecent>>
IsPostRecent(r)   == r.method = "POST" /\ r.path = <<segApi, segRecent>>
IsHealth(r)       == r.method = "GET" /\ Len(r.path) = 4
                     /\ SubSeq(r.path, 1, 2) = <<segApi, segDevices>>
                     /\ r.path[4] = segHealth
IsGetSettings(r)  == r.method = "GET" /\ r.path = <<segApi, segSettings>>
IsPutSettings(r)  == r.method = "PUT" /\ r.path = <<segApi, segSettings>>
IsGetCombos(r)    == r.method = "GET" /\ r.path = <<segApi, segCombos>>
IsPostCombos(r)   == r.method = "POST" /\ r.path = <<segApi, segCombos>>
IsPutCombo(r)     == r.method = "PUT" /\ Len(r.path) = 3
                     /\ SubSeq(r.path, 1, 2) = <<segApi, segCombos>>
IsDeleteCombo(r)  == r.method = "DELETE" /\ Len(r.path) = 3
                     /\ SubSeq(r.path, 1, 2) = <<segApi, segCombos>>
IsRouted(r) == IsAuthStatus(r) \/ IsGetDevices(r) \/ IsPostDevices(r) \/ IsPutDevice(r)
               \/ IsDeleteDevice(r) \/ IsProxy(r) \/ IsLocalFileApi(r)
               \/ IsHealth(r) \/ IsGetSettings(r) \/ IsPutSettings(r)
               \/ IsGetCombos(r) \/ IsPostCombos(r) \/ IsPutCombo(r) \/ IsDeleteCombo(r)
               \/ IsGetRecent(r) \/ IsPostRecent(r)

\* the outcomes of the local filesystem handlers, which are not modelled further
FsOutcomes == {200, 404}

\* the outcomes of an outbound call: it succeeds, the remote side reports a
\* failure (non-zero exit code, non-2xx status), or the call itself fails
NetOutcomes == {"ok", "fail", "throw"}

\* process.env.FILE_EXPLORER_ROOT, and the one symbolic link of the model's
\* filesystem: ROOT_DIR/l points to the directory /a/o
ROOT_DIR == <<"/","a","/","b">>
sLinkPath == <<"/","a","/","b","/","l">>
sLinkTarget == <<"/","a","/","o">>

\* s.split("/") without the empty parts
RECURSIVE SplitPath(_)
SplitPath(s) ==
    IF s = <<>> THEN <<>>
    ELSE LET I == {i \in 1..Len(s) : s[i] = "/"}
             cut == IF I = {} THEN Len(s) + 1 ELSE CHOOSE i \in I : \A j \in I : i <= j
             rest == SplitPath(SubSeq(s, cut + 1, Len(s)))
         IN  IF cut = 1 THEN rest ELSE <<SubSeq(s, 1, cut - 1)>> \o rest

\* "." is dropped and ".." takes the segment before it, if there is one
RECURSIVE NormalizeSegs(_, _)
NormalizeSegs(done, todo) ==
    IF todo = <<>> THEN done
    ELSE IF Head(todo) = <<".">> THEN NormalizeSegs(done, Tail(todo))
    ELSE IF Head(todo) = <<".",".">>
    THEN NormalizeSegs(SubSeq(done, 1, Len(done) - 1), Tail(todo))
    ELSE NormalizeSegs(Append(done, Head(todo)), Tail(todo))

\* "/" + segments joined by "/"
RECURSIVE JoinPath(_)
JoinPath(segs) ==
    IF segs = <<>> THEN <<>> ELSE <<"/">> \o Head(segs) \o JoinPath(Tail(segs))

\* path.resolve(from, to): an absolute to replaces from
pathResolve(from, to) ==
    LET base == IF to # <<>> /\ to[1] = "/" THEN <<>> ELSE SplitPath(from)
        segs == NormalizeSegs(<<>>, base \o SplitPath(to))
    IN  IF segs = <<>> THEN <<"/">> ELSE JoinPath(segs)

\* fs calls follow symbolic links: the path a call on p reaches
RealPath(p) ==
    IF p = sLinkPath \/ StartsWith(p, sLinkPath \o <<"/">>)
    THEN sLinkTarget \o SubSeq(p, Len(sLinkPath) + 1, Len(p))
    ELSE p

\* resolveSafePath(requestedPath), null as Undef
resolveSafePath(requestedPath) ==
    LET resolved == pathResolve(ROOT_DIR, requestedPath)
    IN  IF ~StartsWith(resolved, ROOT_DIR) THEN Undef ELSE resolved

(* The handlers that neither suspend nor write: what they answer to r, the    *)
(* middleware included.  fs is the outcome of the filesystem operation.       *)
ServeDirect(r, fs) ==
    IF AuthMiddleware(r) = 401
    THEN [status |-> 401, body |-> Err("Unauthorized"), ran |-> <<>>]
    ELSE IF AuthMiddleware(r) = 403
    THEN [status |-> 403, body |-> Err("Admin token required for write operations"),
          ran |-> <<>>]
    ELSE IF IsAuthStatus(r)
    THEN [status |-> 200,
          body |-> [required |-> AUTH_ENABLED,
                    hasReadToken |-> READ_API_TOKEN # <<>>,
                    writeRequiresAdmin |-> AUTH_ENABLED],
          ran |-> <<"GET /api/auth/status">>]
    ELSE IF IsGetDevices(r)
    THEN [status |-> 200, body |-> ListBody(devicesFile), ran |-> <<"GET /api/devices">>]
    ELSE IF IsGetSettings(r)
    THEN [status |-> 200, body |-> loadSettings, ran |-> <<"GET /api/settings">>]
    ELSE IF IsLocalFileApi(r)
    THEN LET requestedPath == OrEmpty(Field(IF r.method = "GET" THEN r.query ELSE r.body,
                                            "path"))
             safePath == resolveSafePath(requestedPath)
         IN  IF safePath = Undef
             THEN [status |-> 400, body |-> Err("Invalid path"),
                   ran |-> <<"local file api">>]
             ELSE [status |-> fs,
                   body |-> IF fs = 200 THEN [success |-> TRUE] ELSE Err("Not found"),
                   ran |-> <<"local file api">>,
                   touched |-> <<RealPath(safePath)>>]
    ELSE IF r.method = "OPTIONS"
    THEN \* app.use("*", cors()) answers the preflight
         [status |-> 204, body |-> <<>>, ran |-> <<"cors">>]
    ELSE \* serveStatic, then app.get("*"): index.html when the client is built
         [status |-> IF r.method = "GET" THEN fs ELSE 404,
          body |-> Err("Not found"), ran |-> <<"static fallback">>]

AnswerDirect(r, a, prefix) ==
    /\ req' = r
    /\ res' = [status |-> a.status, body |-> a.body]
    /\ ran' = prefix \o a.ran
    /\ net' = <<>>
    /\ got' = "none"
    /\ touched' = IF "touched" \in DOMAIN a THEN a.touched ELSE <<>>
    /\ UNCHANGED <<env, settingsFile, devicesFile, pending, recentFiles>>

-----------------------------------------------------------------------------
(* Handlers *)

\* app.get("/api/auth/status")
AuthStatus(r) ==
    /\ IsAuthStatus(r)
    /\ AnswerDirect(r, ServeDirect(r, 200), <<>>)

\* app.get("/api/devices")
GetDevices(r) ==
    /\ IsGetDevices(r)
    /\ AnswerDirect(r, ServeDirect(r, 200), <<>>)

\* app.get("/api/settings")
GetSettings(r) ==
    /\ IsGetSettings(r)
    /\ AnswerDirect(r, ServeDirect(r, 200), <<>>)

\* the other field is reset
MergeSettingsReplacing(settings, body) ==
    [settings EXCEPT
        !.localName = OrEmptyToUndef(Field(body, "localName")),
        !.localIcon = OrEmptyToUndef(Field(body, "localIcon"))]

\* body.localName || undefined, kept when the body does not hold the field
MergeSettings(settings, body) ==
    [settings EXCEPT
        !.localName = IF "localName" \in DOMAIN body THEN OrEmptyToUndef(body.localName) ELSE @,
        !.localIcon = IF "localIcon" \in DOMAIN body THEN OrEmptyToUndef(body.localIcon) ELSE @]

\* the settings update that answers r; inner is the request the handlers see
\* (r itself, or r as the router rewrote it) and prefix the handlers entered
\* before it
SettingsWrite(r, inner, prefix) ==
    IF ~Passed(inner) THEN AnswerDirect(r, ServeDirect(inner, 200), prefix)
    ELSE LET settings == MergeSettings(loadSettings, inner.body)
         IN  /\ settingsFile' = settings
             /\ Respond(r, 200, [success |-> TRUE, settings |-> settings],
                        prefix \o <<"PUT /api/settings">>, <<>>)
             /\ UNCHANGED <<env, devicesFile, pending>>

\* app.put("/api/settings"): the body is awaited before the settings are loaded
PutSettings(r) ==
    /\ IsPutSettings(r)
    /\ IF ~Passed(r) THEN Denied(r)
       ELSE SettingsWrite(r, r, <<>>)

\* the local name of the file is kept over the one of the settings saved
saveSettingsKeepingName(settings) ==
    settingsFile' = [settings EXCEPT !.localName = settingsFile.localName]

\* saveSettings(settings)
saveSettings(settings) == settingsFile' = settings

\* a JSON value that is neither a string nor an array
Obj == <<"[object Object]">>

\* ids that are not registered devices are refused as well
NoDeviceIdsOrUnregistered(deviceIds) ==
    \/ deviceIds = Undef \/ deviceIds = Obj \/ Len(deviceIds) = 0
    \/ \E i \in 1..Len(deviceIds) : ~HasId(devicesFile, deviceIds[i])

\* !deviceIds || !Array.isArray(deviceIds) || deviceIds.length === 0
NoDeviceIds(deviceIds) == deviceIds = Undef \/ deviceIds = Obj \/ Len(deviceIds) = 0

sComboPfx == <<"c","o","m","b","o","-">>
sFolderIcon == <<"folder">>

\* an empty slug is kept as the id
ComboIdNoFallback(name, now) == Slugify(name)

\* name.toLowerCase().replace(...).replace(...) || `combo-${Date.now()}`
ComboId(name, now) ==
    IF Slugify(name) # <<>> THEN Slugify(name) ELSE sComboPfx \o <<ToString(now)>>

\* settings.comboViews.findIndex((v) => v.id === id), 0 for -1
FindCombo(comboViews, id) ==
    IF \E i \in 1..Len(comboViews) : comboViews[i].id = id
    THEN CHOOSE i \in 1..Len(comboViews) :
            comboViews[i].id = id /\ \A j \in 1..(i - 1) : comboViews[j].id # id
    ELSE 0

\* app.get("/api/combos")
GetCombos(r) ==
    /\ IsGetCombos(r)
    /\ IF ~Passed(r) THEN Denied(r)
       ELSE /\ Respond(r, 200, [combos |-> loadSettings.comboViews],
                       <<"GET /api/combos">>, <<>>)
            /\ UNCHANGED <<env, settingsFile, devicesFile, pending>>

\* app.post("/api/combos"): the body is awaited before the settings are loaded
PostCombos(r) ==
    /\ IsPostCombos(r)
    /\ IF ~Passed(r) THEN Denied(r)
       ELSE
       LET name == Field(r.body, "name")
           icon == Field(r.body, "icon")
           deviceIds == Field(r.body, "deviceIds")
           settings == loadSettings
           h == <<"POST /api/combos">>
       IN  IF ~Truthy(name)
           THEN /\ Respond(r, 400, Err("name required"), h, <<>>)
                /\ UNCHANGED <<env, settingsFile, devicesFile, pending>>
           ELSE IF NoDeviceIds(deviceIds)
           THEN /\ Respond(r, 400, Err("deviceIds required"), h, <<>>)
                /\ UNCHANGED <<env, settingsFile, devicesFile, pending>>
           ELSE \E now \in 1..MaxNow :
                LET id == ComboId(name, now)
                    combo == [id |-> id, name |-> name,
                              icon |-> IF Truthy(icon) THEN icon ELSE sFolderIcon,
                              deviceIds |-> deviceIds]
                IN  IF FindCombo(settings.comboViews, id) # 0
                    THEN /\ Respond(r, 409, Err("Combo view with this name already exists"),
                                    h, <<>>)
                         /\ UNCHANGED <<env, settingsFile, devicesFile, pending>>
                    ELSE /\ saveSettings([settings EXCEPT !.comboViews = Append(@, combo)])
                         /\ Respond(r, 200, [success |-> TRUE, combo |-> combo], h, <<>>)
                         /\ UNCHANGED <<env, devicesFile, pending>>

\* app.put("/api/combos/:id"), up to the await of the request body
PutCombo(r) ==
    /\ IsPutCombo(r)
    /\ IF ~Passed(r) THEN Denied(r)
       ELSE
       LET id == r.path[3]
           settings == loadSettings
           idx == FindCombo(settings.comboViews, id)
           h == <<"PUT /api/combos/:id">>
       IN  IF idx = 0
           THEN /\ Respond(r, 404, Err("Combo view not found"), h, <<>>)
                /\ UNCHANGED <<env, settingsFile, devicesFile, pending>>
           ELSE /\ Len(pending) < MaxPending
                /\ pending' = Append(pending,
                      [op |-> "comboUpdate", r |-> r, settings |-> settings, idx |-> idx])
                /\ Respond(r, 0, <<>>, h, <<>>)
                /\ UNCHANGED <<env, settingsFile, devicesFile>>

\* deviceIds is assigned only when it is not empty
MergeComboNonEmpty(combo, body) ==
    [combo EXCEPT
        !.name = IF "name" \in DOMAIN body THEN body.name ELSE @,
        !.icon = IF "icon" \in DOMAIN body THEN body.icon ELSE @,
        !.deviceIds = IF "deviceIds" \in DOMAIN body /\ ~NoDeviceIds(body.deviceIds)
                      THEN body.deviceIds ELSE @]

\* the assignments of the combo update to settings.comboViews[idx]
MergeCombo(combo, body) ==
    [combo EXCEPT
        !.name = IF "name" \in DOMAIN body THEN body.name ELSE @,
        !.icon = IF "icon" \in DOMAIN body THEN body.icon ELSE @,
        !.deviceIds = IF "deviceIds" \in DOMAIN body THEN body.deviceIds ELSE @]

\* app.put("/api/combos/:id"), from the body's arrival on
ComboBodyRead ==
    \E i \in 1..Len(pending) :
    LET p == pending[i]
        settings == [p.settings EXCEPT !.comboViews[p.idx] = MergeCombo(@, p.r.body)]
    IN  /\ p.op = "comboUpdate"
        /\ pending' = RemoveAt(pending, i)
        /\ saveSettings(settings)
        /\ Respond(p.r, 200, [success |-> TRUE, combo |-> settings.comboViews[p.idx]],
                   <<"PUT /api/combos/:id">>, <<>>)
        /\ UNCHANGED <<env, devicesFile>>

\* app.delete("/api/combos/:id")
DeleteCombo(r) ==
    /\ IsDeleteCombo(r)
    /\ IF ~Passed(r) THEN Denied(r)
       ELSE
       LET id == r.path[3]
           settings == loadSettings
           filtered == SelectSeq(settings.comboViews, LAMBDA v : v.id # id)
           h == <<"DELETE /api/combos/:id">>
       IN  IF Len(filtered) = Len(settings.comboViews)
           THEN /\ Respond(r, 404, Err("Combo view not found"), h, <<>>)
                /\ UNCHANGED <<env, settingsFile, devicesFile, pending>>
           ELSE /\ saveSettings([settings EXCEPT !.comboViews = filtered])
                /\ Respond(r, 200, [success |-> TRUE], h, <<>>)
                /\ UNCHANGED <<env, devicesFile, pending>>

\* the local filesystem handlers (files, download, mkdir)
LocalFileApi(r) ==
    /\ IsLocalFileApi(r)
    /\ \E fs \in FsOutcomes : AnswerDirect(r, ServeDirect(r, fs), <<>>)

\* a request no API handler matches: it falls through to the static fallback
NoRoute(r) ==
    /\ ~IsRouted(r)
    /\ \E fs \in FsOutcomes : AnswerDirect(r, ServeDirect(r, fs), <<>>)

\* an absolute http URL; fetch() rejects anything else
sHttp == <<"h","t","t","p",":","/","/">>
IsAbsoluteUrl(u) == StartsWith(u, sHttp) /\ Len(u) > Len(sHttp)

sProbePath == <<"/","a","p","i","/","f","i","l","e","s","?","p","a","t","h","=">>

SshCall(host, cmd) == [kind |-> "ssh", host |-> host, cmd |-> cmd]
FetchCall(method, url, auth) ==
    [kind |-> "fetch", method |-> method, url |-> url, authorization |-> auth]

\* the reserved id is not checked
\* no id collides
IdTakenNever(devices, id) == FALSE

IdTakenIgnoresLocal(devices, id) == HasId(devices, id)

\* the registered ids are not checked
IdTakenLocalOnly(devices, id) == id = sLocal

\* id === "local" || devices.some((d) => d.id === id)
IdTaken(devices, id) == id = sLocal \/ HasId(devices, id)

\* app.post("/api/devices"), up to the await of the connectivity probe
PostDevices(r) ==
    /\ IsPostDevices(r)
    /\ IF ~Passed(r) THEN Denied(r)
       ELSE
       LET name == Field(r.body, "name")
           url == Field(r.body, "url")
           sshHost == Field(r.body, "sshHost")
           authToken == Field(r.body, "authToken")
           h == <<"POST /api/devices">>
       IN  IF Truthy(sshHost)
           THEN \E now \in 1..MaxNow :
                LET deviceName == IF Truthy(name) THEN name ELSE sshHost
                    devices == devicesFile
                    id == DeviceId(deviceName, now)
                IN  IF IdTaken(devices, id)
                    THEN /\ Respond(r, 409, Err("Device ID already exists"), h, <<>>)
                         /\ UNCHANGED <<env, settingsFile, devicesFile, pending>>
                    ELSE /\ Len(devices) < MaxDevices
                         /\ Len(pending) < MaxPending
                         /\ pending' = Append(pending,
                               [op |-> "addSsh", r |-> r, devices |-> devices,
                                id |-> id, idx |-> 0])
                         /\ Respond(r, 0, <<>>, h,
                                    <<SshCall(sshHost, "echo ok && echo $HOME")>>)
                         /\ UNCHANGED <<env, settingsFile, devicesFile>>
           ELSE IF ~Truthy(name) \/ ~Truthy(url)
           THEN /\ Respond(r, 400, Err("name and url (or sshHost) required"), h, <<>>)
                /\ UNCHANGED <<env, settingsFile, devicesFile, pending>>
           ELSE \E now \in 1..MaxNow :
                LET devices == devicesFile
                    id == DeviceId(name, now)
                    cleanUrl == StripTrailingSlashes(url)
                    cleanToken == IF authToken # Undef THEN Trim(authToken) ELSE <<>>
                    authHeader == getForwardAuthHeader(r, cleanToken)
                IN  IF IdTaken(devices, id)
                    THEN /\ Respond(r, 409, Err("Device ID already exists"), h, <<>>)
                         /\ UNCHANGED <<env, settingsFile, devicesFile, pending>>
                    ELSE /\ Len(devices) < MaxDevices
                         /\ Len(pending) < MaxPending
                         /\ pending' = Append(pending,
                               [op |-> "addHttp", r |-> r, devices |-> devices,
                                id |-> id, idx |-> 0])
                         /\ Respond(r, 0, <<>>, h,
                                    IF IsAbsoluteUrl(cleanUrl)
                                    THEN <<FetchCall("GET", cleanUrl \o sProbePath, authHeader)>>
                                    ELSE <<>>)
                         /\ UNCHANGED <<env, settingsFile, devicesFile>>

\* what ssh prints for "echo ok && echo $HOME"
sOk == <<"o","k">>
sRemoteHome == <<"/","h">>
SshStdout(outcome) == IF outcome = "ok" THEN <<sOk, sRemoteHome>> ELSE <<>>
SshCode(outcome) ==
    IF outcome = "throw" THEN 124 ELSE IF outcome = "fail" THEN 255
    ELSE IF outcome = "partial" THEN 1 ELSE 0

\* stdout.includes("ok"), stdout given as its lines
RECURSIVE Contains(_, _)
Contains(s, sub) ==
    IF Len(s) < Len(sub) THEN FALSE
    ELSE StartsWith(s, sub) \/ Contains(Tail(s), sub)

IncludesOk(stdout) == \E i \in 1..Len(stdout) : Contains(stdout[i], sOk)

\* stdout.trim().split("\n").pop() || "/"
LastLineOrRoot(stdout) ==
    IF stdout # <<>> /\ stdout[Len(stdout)] # <<>> THEN stdout[Len(stdout)] ELSE sSlash

\* the host is stored as the url as well
NewSshDeviceWithUrl(p, remoteHome) ==
    LET b == p.r.body
    IN  [id |-> p.id,
         name |-> IF Truthy(Field(b, "name")) THEN b.name ELSE b.sshHost,
         url |-> b.sshHost,
         sshHost |-> b.sshHost,
         sshRoot |-> IF Truthy(Field(b, "sshRoot")) THEN b.sshRoot ELSE remoteHome,
         authToken |-> Undef,
         icon |-> IF Truthy(Field(b, "icon")) THEN b.icon ELSE sDefaultIcon,
         enabled |-> TRUE]

\* the device an SSH add builds
NewSshDevice(p, remoteHome) ==
    LET b == p.r.body
    IN  [id |-> p.id,
         name |-> IF Truthy(Field(b, "name")) THEN b.name ELSE b.sshHost,
         url |-> <<>>,
         sshHost |-> b.sshHost,
         sshRoot |-> IF Truthy(Field(b, "sshRoot")) THEN b.sshRoot ELSE remoteHome,
         authToken |-> Undef,
         icon |-> IF Truthy(Field(b, "icon")) THEN b.icon ELSE sDefaultIcon,
         enabled |-> TRUE]

\* the device an HTTP add builds
NewHttpDevice(p) ==
    LET b == p.r.body
    IN  [id |-> p.id,
         name |-> b.name,
         url |-> StripTrailingSlashes(b.url),
         sshHost |-> Undef,
         sshRoot |-> Undef,
         authToken |-> CleanToken(Field(b, "authToken")),
         icon |-> IF Truthy(Field(b, "icon")) THEN b.icon ELSE sDefaultIcon,
         enabled |-> TRUE]

\* saveDevices(devices)
saveDevices(devices) == devicesFile' = devices

\* app.post("/api/devices"), from the probe's completion on
ProbeDone ==
    \E i \in 1..Len(pending) : \E outcome \in NetOutcomes :
    LET p == pending[i]
        h == <<"POST /api/devices">>
    IN  /\ p.op \in {"addSsh", "addHttp"}
        \* fetch() of a URL that is not absolute can only reject
        /\ (p.op = "addHttp" /\ ~IsAbsoluteUrl(StripTrailingSlashes(p.r.body.url)))
              => outcome = "throw"
        /\ pending' = RemoveAt(pending, i)
        /\ UNCHANGED <<env, settingsFile>>
        /\ IF p.op = "addSsh"
           THEN LET stdout == SshStdout(outcome)
                    code == SshCode(outcome)
                IN  IF code # 0 \/ ~IncludesOk(stdout)
                    THEN /\ RespondAfter(outcome, p.r, 502, Err("Cannot SSH"), h, <<>>)
                         /\ UNCHANGED devicesFile
                    ELSE LET device == NewSshDevice(p, LastLineOrRoot(stdout))
                         IN  /\ saveDevices(Append(p.devices, device))
                             /\ RespondAfter(outcome, p.r, 200,
                                        [success |-> TRUE, device |-> toPublicDevice(device)],
                                        h, <<>>)
           ELSE IF outcome # "ok"
                THEN /\ RespondAfter(outcome, p.r, 502, Err("Cannot reach"), h, <<>>)
                     /\ UNCHANGED devicesFile
                ELSE LET device == NewHttpDevice(p)
                     IN  /\ saveDevices(Append(p.devices, device))
                         /\ RespondAfter(outcome, p.r, 200,
                                    [success |-> TRUE, device |-> toPublicDevice(device)],
                                    h, <<>>)

\* app.put("/api/devices/:id"), up to the await of the request body
PutDevice(r) ==
    /\ IsPutDevice(r)
    /\ IF ~Passed(r) THEN Denied(r)
       ELSE
       LET id == r.path[3]
           devices == devicesFile
           idx == FindIndex(devices, id)
           h == <<"PUT /api/devices/:id">>
       IN  IF id = sLocal
           THEN /\ Respond(r, 400, Err("Cannot edit local device"), h, <<>>)
                /\ UNCHANGED <<env, settingsFile, devicesFile, pending>>
           ELSE IF idx = 0
           THEN /\ Respond(r, 404, Err("Device not found"), h, <<>>)
                /\ UNCHANGED <<env, settingsFile, devicesFile, pending>>
           ELSE /\ Len(pending) < MaxPending
                /\ pending' = Append(pending,
                      [op |-> "update", r |-> r, devices |-> devices,
                       id |-> id, idx |-> idx])
                /\ Respond(r, 0, <<>>, h, <<>>)
                /\ UNCHANGED <<env, settingsFile, devicesFile>>

\* the name is assigned whether the body holds it or not
MergeFieldsAlways(d, body) ==
    [d EXCEPT
        !.name = Field(body, "name"),
        !.url = IF "url" \in DOMAIN body THEN StripTrailingSlashes(body.url) ELSE @,
        !.authToken = IF "authToken" \in DOMAIN body THEN CleanToken(body.authToken) ELSE @,
        !.icon = IF "icon" \in DOMAIN body THEN body.icon ELSE @,
        !.enabled = IF "enabled" \in DOMAIN body THEN body.enabled ELSE @]

\* the assignments of the update handler to devices[idx]
MergeFields(d, body) ==
    [d EXCEPT
        !.name = IF "name" \in DOMAIN body THEN body.name ELSE @,
        !.url = IF "url" \in DOMAIN body THEN StripTrailingSlashes(body.url) ELSE @,
        !.authToken = IF "authToken" \in DOMAIN body THEN CleanToken(body.authToken) ELSE @,
        !.icon = IF "icon" \in DOMAIN body THEN body.icon ELSE @,
        !.enabled = IF "enabled" \in DOMAIN body THEN body.enabled ELSE @]

\* app.put("/api/devices/:id"), from the body's arrival on
BodyRead ==
    \E i \in 1..Len(pending) :
    LET p == pending[i]
        devices == [p.devices EXCEPT ![p.idx] = MergeFields(@, p.r.body)]
    IN  /\ p.op = "update"
        /\ pending' = RemoveAt(pending, i)
        /\ saveDevices(devices)
        /\ Respond(p.r, 200,
                   [success |-> TRUE, device |-> toPublicDevice(devices[p.idx])],
                   <<"PUT /api/devices/:id">>, <<>>)
        /\ UNCHANGED <<env, settingsFile>>

\* app.delete("/api/devices/:id")
DeleteDevice(r) ==
    /\ IsDeleteDevice(r)
    /\ IF ~Passed(r) THEN Denied(r)
       ELSE
       LET id == r.path[3]
           devices == devicesFile
           filtered == FilterOut(devices, id)
           h == <<"DELETE /api/devices/:id">>
       IN  IF id = sLocal
           THEN /\ Respond(r, 400, Err("Cannot delete local device"), h, <<>>)
                /\ UNCHANGED <<env, settingsFile, devicesFile, pending>>
           ELSE IF Len(filtered) = Len(devices)
           THEN /\ Respond(r, 404, Err("Device not found"), h, <<>>)
                /\ UNCHANGED <<env, settingsFile, devicesFile, pending>>
           ELSE /\ saveDevices(filtered)
                /\ Respond(r, 200, [success |-> TRUE], h, <<>>)
                /\ UNCHANGED <<env, settingsFile, pending>>

\* what ssh -o BatchMode=yes host "echo ok" can end as: the outcomes of any
\* call, and an exit code of 0 with nothing printed
HealthOutcomes == NetOutcomes \cup {"mute"}

\* a thrown fetch is reported as an error status
HealthStatusNeverUnreachable(device, outcome) ==
    IF outcome = "ok" THEN "ok" ELSE "error"

\* the status field of a health answer
HealthStatus(device, outcome) ==
    IF Truthy(device.sshHost)
    THEN (IF SshCode(outcome) = 0 /\ IncludesOk(SshStdout(outcome)) THEN "ok"
          ELSE "unreachable")
    ELSE (IF outcome = "throw" THEN "unreachable"
          ELSE IF outcome = "ok" THEN "ok" ELSE "error")

\* app.get("/api/devices/:id/health")
DeviceHealth(r) ==
    /\ IsHealth(r)
    /\ IF ~Passed(r) THEN Denied(r)
       ELSE
       LET id == r.path[3]
           devices == devicesFile
           idx == FindIndex(devices, id)
           h == <<"GET /api/devices/:id/health">>
       IN  /\ UNCHANGED <<env, settingsFile, devicesFile, pending>>
           /\ IF id = sLocal
              THEN Respond(r, 200, [status |-> "ok", latency |-> 0], h, <<>>)
              ELSE IF idx = 0
              THEN Respond(r, 404, Err("Device not found"), h, <<>>)
              ELSE \E outcome \in HealthOutcomes : \E latency \in 0..MaxLatency :
                   LET device == devices[idx]
                       status == HealthStatus(device, outcome)
                   IN  IF Truthy(device.sshHost)
                       THEN RespondAfter(outcome, r, 200,
                                [status |-> status, latency |-> latency, type |-> "ssh"],
                                h, <<SshCall(device.sshHost, "echo ok")>>)
                       ELSE /\ outcome \in NetOutcomes
                            \* fetch() of a URL that is not absolute can only reject
                            /\ ~IsAbsoluteUrl(device.url) => outcome = "throw"
                            /\ RespondAfter(outcome, r, 200,
                                  IF outcome = "throw"
                                  THEN [status |-> status, latency |-> latency,
                                        error |-> "fetch failed"]
                                  ELSE [status |-> status, latency |-> latency,
                                        httpStatus |-> IF outcome = "ok" THEN 200 ELSE 500],
                                  h,
                                  IF IsAbsoluteUrl(device.url)
                                  THEN <<FetchCall("GET", device.url \o sProbePath,
                                           getForwardAuthHeader(r, device.authToken))>>
                                  ELSE <<>>)

-----------------------------------------------------------------------------
(* The router, app.all("/api/d/:deviceId/*") *)

sApiPfx == <<"/","a","p","i">>

\* the operations of the file API that the SSH branch names
segSearch    == <<"s","e","a","r","c","h">>
segPreview   == <<"p","r","e","v","i","e","w">>
segInfo      == <<"i","n","f","o">>
segTouch     == <<"t","o","u","c","h">>
segRename    == <<"r","e","n","a","m","e">>
segDelete    == <<"d","e","l","e","t","e">>
segSave      == <<"s","a","v","e">>
segDuplicate == <<"d","u","p","l","i","c","a","t","e">>

\* the index of the last ch in s, 0 when there is none
LastIndexOf(s, ch) ==
    LET I == {i \in 1..Len(s) : s[i] = ch}
    IN  IF I = {} THEN 0 ELSE CHOOSE i \in I : \A j \in I : j <= i

\* path.basename(p)
Basename(p) == SubSeq(p, LastIndexOf(p, "/") + 1, Len(p))

\* path.extname(p): from the last dot of the base name, unless the name has
\* none or starts with it
Extname(p) ==
    LET base == Basename(p)
        dot == LastIndexOf(base, ".")
    IN  IF dot <= 1 THEN <<>> ELSE SubSeq(base, dot, Len(base))

getFileType(filename) ==
    LET ext == ToLowerCase(Extname(filename))
        imageExts ==
            { <<".","j","p","g">>, <<".","j","p","e","g">>, <<".","p","n","g">>,
            <<".","g","i","f">>, <<".","w","e","b","p">>, <<".","s","v","g">>,
            <<".","i","c","o">>, <<".","b","m","p">> }
        videoExts ==
            { <<".","m","p","4">>, <<".","w","e","b","m">>, <<".","m","o","v">>,
            <<".","a","v","i">>, <<".","m","k","v">> }
        audioExts ==
            { <<".","m","p","3">>, <<".","w","a","v">>, <<".","o","g","g">>,
            <<".","f","l","a","c">>, <<".","m","4","a">> }
        codeExts ==
            { <<".","j","s">>, <<".","t","s">>, <<".","j","s","x">>,
            <<".","t","s","x">>, <<".","p","y">>, <<".","r","b">>, <<".","g","o">>,
            <<".","r","s">>, <<".","j","a","v","a">>, <<".","c">>,
            <<".","c","p","p">>, <<".","h">>, <<".","c","s","s">>,
            <<".","s","c","s","s">>, <<".","h","t","m","l">>,
            <<".","j","s","o","n">>, <<".","y","a","m","l">>, <<".","y","m","l">>,
            <<".","t","o","m","l">>, <<".","m","d">>, <<".","s","h">>,
            <<".","b","a","s","h">>, <<".","z","s","h">> }
        docExts ==
            { <<".","p","d","f">>, <<".","d","o","c">>, <<".","d","o","c","x">>,
            <<".","x","l","s">>, <<".","x","l","s","x">>, <<".","p","p","t">>,
            <<".","p","p","t","x">>, <<".","t","x","t">> }
        archiveExts ==
            { <<".","z","i","p">>, <<".","t","a","r">>, <<".","g","z">>,
            <<".","r","a","r">>, <<".","7","z">> }
    IN  IF ext \in imageExts THEN "image"
        ELSE IF ext \in videoExts THEN "video"
        ELSE IF ext \in audioExts THEN "audio"
        ELSE IF ext \in codeExts THEN "code"
        ELSE IF ext \in docExts THEN "document"
        ELSE IF ext \in archiveExts THEN "archive"
        ELSE "file"

\* what sshPreview does with a file: read it whole, read its head, or nothing
PreviewKind(filePath) ==
    LET ext == ToLowerCase(Extname(filePath))
        fileType == getFileType(Basename(filePath))
    IN  IF fileType = "image" THEN "image"
        ELSE IF fileType = "code" \/ ext = <<".","t","x","t">> \/ ext = <<".","m","d">>
        THEN "text"
        ELSE "unsupported"

\* a remote command besides failing or timing out with nothing printed can
\* end with a non-zero exit code after it printed something
SshOutcomes == NetOutcomes \cup {"partial"}

\* the remote command printed something
Printed(outcome) == outcome \in {"ok", "partial"}

\* a value inside a template literal
sUndefined == <<"u","n","d","e","f","i","n","e","d">>
Interp(x) == IF x = Undef THEN sUndefined ELSE x

\* `${root}/${p}`
Under(root, p) == root \o sSlash \o Interp(p)

\* a remote command and the path it is given
SshCallAt(host, cmd, target) ==
    [kind |-> "ssh", host |-> host, cmd |-> cmd, target |-> target]

\* targetPath === root
IsRootTarget(root, targetPath) == targetPath = root

\* a write operation that does not read the exit code
WriteStatusIgnoringCode(code) == 200

\* code === 0 ? c.json({ success: true }) : c.json({ error }, 500)
WriteStatus(code) == IF code = 0 THEN 200 ELSE 500

\* every operation without an implementation is answered like recent
UnsupportedAnswerBenign(suffix) ==
    [status |-> 200, body |-> [files |-> <<>>]]

\* the answer to an operation that no branch implements
UnsupportedAnswer(suffix) ==
    IF suffix = <<segRecent>>
    THEN [status |-> 200, body |-> [files |-> <<>>]]
    ELSE [status |-> 400, body |-> Err("Unsupported SSH operation")]

\* the SSH branch: the operation named by suffix, run on the remote host
SshBranch(r, device, outcome) ==
    LET host == device.sshHost
        root == IF Truthy(device.sshRoot) THEN device.sshRoot ELSE sSlash
        suffix == SubSeq(r.path, 4, Len(r.path))
        h == <<"ALL /api/d/:deviceId/*">>
        reqPath == OrEmpty(Field(r.query, "path"))
        query == OrEmpty(Field(r.query, "q"))
        code == SshCode(outcome)
        Is(op, method) == suffix = <<op>> /\ r.method = method
        \* an answer without a remote command
        Quick(status, body) == [status |-> status, body |-> body, ran |-> h, net |-> <<>>]
        \* a helper that throws when its command fails; the catch answers 502
        Thrown(cmd, target, failed, msg, body) ==
            [status |-> IF failed THEN 502 ELSE 200,
             body |-> IF failed THEN Err(msg) ELSE body,
             ran |-> h, net |-> <<SshCallAt(host, cmd, target)>>]
        \* a write operation: success or 500 by the exit code
        Written(cmd, target, msg) ==
            [status |-> WriteStatus(code),
             body |-> IF WriteStatus(code) = 200 THEN [success |-> TRUE] ELSE Err(msg),
             ran |-> h, net |-> <<SshCallAt(host, cmd, target)>>]
    IN  IF Is(segFiles, "GET")
        THEN \* sshListFiles throws when the command fails and printed nothing
             Thrown("ls", IF reqPath # <<>> THEN Under(root, reqPath) ELSE root,
                    code # 0 /\ ~Printed(outcome),
                    "SSH error: Failed to list directory",
                    [path |-> reqPath, files |-> IF Printed(outcome) THEN <<"f">> ELSE <<>>])
        ELSE IF Is(segSearch, "GET")
        THEN IF Len(query) < 2 THEN Quick(200, [results |-> <<>>])
             ELSE \* sshSearch does not read the exit code
                  Thrown("find", IF reqPath # <<>> THEN Under(root, reqPath) ELSE root,
                         FALSE, "",
                         [results |-> IF Printed(outcome) THEN <<"f">> ELSE <<>>])
        ELSE IF Is(segPreview, "GET")
        THEN IF reqPath = <<>> THEN Quick(400, Err("path required"))
             ELSE IF PreviewKind(reqPath) = "image"
             THEN Thrown("cat", Under(root, reqPath), code # 0,
                         "SSH error: Failed to read file", [type |-> "image"])
             ELSE IF PreviewKind(reqPath) = "text"
             THEN Thrown("head", Under(root, reqPath), code # 0,
                         "SSH error: Failed to read file", [type |-> "text"])
             ELSE Quick(200, [type |-> "unsupported"])
        ELSE IF Is(segInfo, "GET")
        THEN IF reqPath = <<>> THEN Quick(400, Err("path required"))
             ELSE Thrown("stat", Under(root, reqPath), code # 0,
                         "SSH error: Failed to get info", [path |-> reqPath])
        ELSE IF Is(segDownload, "GET")
        THEN IF reqPath = <<>> THEN Quick(400, Err("path required"))
             ELSE Thrown("cat", Under(root, reqPath), code # 0,
                         "SSH error: Failed to download", [data |-> reqPath])
        ELSE IF Is(segMkdir, "POST")
        THEN Written("mkdir -p", Under(root, Field(r.body, "path")), "Failed to create folder")
        ELSE IF Is(segTouch, "POST")
        THEN Written("cat >", Under(root, Field(r.body, "path")), "Failed to create file")
        ELSE IF Is(segRename, "POST")
        THEN Written("mv", Under(root, Field(r.body, "from")), "Failed to rename")
        ELSE IF Is(segDelete, "POST")
        THEN LET targetPath == Under(root, Field(r.body, "path"))
             IN  IF IsRootTarget(root, targetPath)
                 THEN Quick(400, Err("Cannot delete root"))
                 ELSE Written("rm -rf", targetPath, "Failed to delete")
        ELSE IF Is(segSave, "POST")
        THEN Written("base64 -d >", Under(root, Field(r.body, "path")), "Failed to save")
        ELSE IF Is(segDuplicate, "POST")
        THEN Written("cp -r", Under(root, Field(r.body, "path")), "Failed to duplicate")
        ELSE Quick(UnsupportedAnswer(suffix).status, UnsupportedAnswer(suffix).body)

\* what the remote instance can answer to a proxied request, besides the
\* outcomes of any call: a 404
ProxyOutcomes == NetOutcomes \cup {"notfound"}

\* every remote error status is turned into 502
RemoteStatusMasked(outcome) == IF outcome = "ok" THEN 200 ELSE 502

\* proxyRes.status
RemoteStatus(outcome) ==
    IF outcome = "ok" THEN 200 ELSE IF outcome = "notfound" THEN 404 ELSE 500

\* the outbound request of the HTTP branch: the caller's method, query
\* parameters, headers (without host, authorization as resolved) and body
ProxyCall(r, remoteUrl, authorization) ==
    [kind |-> "fetch", method |-> r.method, url |-> remoteUrl,
     query |-> [k \in DOMAIN r.query \cup (IF r.qtoken # Undef THEN {"token"} ELSE {}) |->
                   IF k = "token" THEN r.qtoken ELSE r.query[k]],
     authorization |-> authorization, xtoken |-> r.xtoken, host |-> Undef,
     body |-> IF r.method # "GET" /\ r.method # "HEAD" THEN r.body ELSE Undef]

\* the HTTP branch: one fetch of {device.url}/api{suffix}
HttpBranch(r, device, outcome) ==
    LET suffix == JoinPath(SubSeq(r.path, 4, Len(r.path)))
        remoteUrl == device.url \o sApiPfx \o suffix
        authHeader == getForwardAuthHeader(r, device.authToken)
        sent == IF authHeader # Undef THEN authHeader ELSE r.authorization
        h == <<"ALL /api/d/:deviceId/*">>
    IN  IF ~IsAbsoluteUrl(device.url)
        THEN \* new URL(...) throws outside the try: the framework answers 500
             [status |-> 500, body |-> Err("Internal Server Error"), ran |-> h, net |-> <<>>]
        ELSE [status |-> IF outcome = "throw" THEN 502 ELSE RemoteStatus(outcome),
              body |-> IF outcome = "throw" THEN Err("Proxy error") ELSE [remote |-> outcome],
              ran |-> h,
              net |-> <<ProxyCall(r, remoteUrl, sent)>>]

\* the enabled flag is not looked at
ProxyRefusalIgnoresEnabled(devices, deviceId) ==
    IF FindIndex(devices, deviceId) = 0 THEN 404 ELSE 0

\* the router's registry lookup: 404 for an unknown id, 403 for a disabled
\* device, 0 when the request is dispatched
ProxyRefusal(devices, deviceId) ==
    IF FindIndex(devices, deviceId) = 0 THEN 404
    ELSE IF ~devices[FindIndex(devices, deviceId)].enabled THEN 403
    ELSE 0

\* the rewritten request always has method GET
LocalRequestAsGet(r) ==
    [r EXCEPT !.path = <<segApi>> \o SubSeq(r.path, 4, Len(r.path)), !.method = "GET"]

\* the request the local branch hands to app.fetch: same method, headers,
\* query and body, pathname /api{suffix}
LocalRequest(r) ==
    [r EXCEPT !.path = <<segApi>> \o SubSeq(r.path, 4, Len(r.path))]

DeviceProxy(r) ==
    /\ IsProxy(r)
    /\ IF ~Passed(r) THEN Denied(r)
       ELSE
       LET deviceId == r.path[3]
           h == <<"ALL /api/d/:deviceId/*">>
       IN  IF deviceId = sLocal
           THEN \* re-dispatch of the rewritten request through app.fetch
                LET newReq == LocalRequest(r)
                IN  /\ ~IsPostDevices(newReq) /\ ~IsPutDevice(newReq)
                    /\ ~IsDeleteDevice(newReq) /\ ~IsProxy(newReq)
                    /\ ~IsHealth(newReq)
                    /\ ~IsGetCombos(newReq) /\ ~IsPostCombos(newReq)
                    /\ ~IsPutCombo(newReq) /\ ~IsDeleteCombo(newReq)
                    /\ IF IsPutSettings(newReq) THEN SettingsWrite(r, newReq, h)
                       ELSE \E fs \in FsOutcomes :
                               AnswerDirect(r, ServeDirect(newReq, fs), h)
           ELSE
           LET devices == devicesFile
               idx == FindIndex(devices, deviceId)
           IN  IF ProxyRefusal(devices, deviceId) = 404
               THEN /\ Respond(r, 404, Err("Device not found"), h, <<>>)
                    /\ UNCHANGED <<env, settingsFile, devicesFile, pending>>
               ELSE IF ProxyRefusal(devices, deviceId) = 403
               THEN /\ Respond(r, 403, Err("Device is disabled"), h, <<>>)
                    /\ UNCHANGED <<env, settingsFile, devicesFile, pending>>
               ELSE \E outcome \in ProxyOutcomes \cup SshOutcomes :
                    LET a == IF Truthy(devices[idx].sshHost)
                             THEN SshBranch(r, devices[idx], outcome)
                             ELSE HttpBranch(r, devices[idx], outcome)
                    IN  /\ outcome \in IF Truthy(devices[idx].sshHost)
                                       THEN SshOutcomes ELSE ProxyOutcomes
                        /\ (a.net = <<>>) => (outcome = "ok")
                        /\ RespondAfter(IF a.net = <<>> THEN "none" ELSE outcome,
                                        r, a.status, a.body, a.ran, a.net)
                        /\ UNCHANGED <<env, settingsFile, devicesFile, pending>>

-----------------------------------------------------------------------------
(* Requests *)

Request(method, path, authorization, xtoken, qtoken, body) ==
    [method |-> method, path |-> path, authorization |-> authorization,
     xtoken |-> xtoken, qtoken |-> qtoken, query |-> <<>>, body |-> body]

\* the same request with query parameters besides token
WithQuery(r, query) == [r EXCEPT !.query = query]

\* a request that carries no credential
Plain(method, path, body) == Request(method, path, Undef, Undef, Undef, body)

NoBody == <<>>

\* device names, hosts, urls, tokens and icons that requests carry
nAB     == <<"A"," ","b">>                  \* slug "a-b"
nAb2    == <<"a","_","_","B">>              \* slug "a-b" as well
nLocal  == <<"-","L","o","c","a","l","!">>  \* slug "local"
nBang   == <<"!","!">>                      \* empty slug
hMac    == <<"m","a","c">>
hAB     == <<"a",".","b">>                  \* slug "a-b"
uA      == <<"h","t","t","p",":","/","/","a">>
uASlash == <<"h","t","t","p",":","/","/","a","/","/">>
uBad    == <<"x">>                          \* not a URL
tokS1   == <<" ","s","1"," ">>
tokS2   == <<"s","2">>
sIcon   == <<"i">>
sRoot   == <<"/","r">>

idAB    == <<"a","-","b">>
idMac   == hMac
idDev1  == sDevicePfx \o <<"1">>
idNone  == <<"z">>

AddBodies ==
    { [name |-> nAB, url |-> uASlash, authToken |-> tokS1],
      [name |-> nLocal, url |-> uA],
      [name |-> nBang, url |-> uA],
      [sshHost |-> hAB],
      [sshHost |-> hMac, name |-> nLocal] }

UpdateBodies ==
    { [url |-> uASlash, authToken |-> <<>>, enabled |-> FALSE] }

PathIds == {sLocal, idAB, idDev1}

RegistryRequests ==
    {Plain("GET", <<segApi, segDevices>>, NoBody)}
    \cup {Plain("POST", <<segApi, segDevices>>, b) : b \in AddBodies}
    \cup {Plain("PUT", <<segApi, segDevices, id>>, b) : id \in PathIds, b \in UpdateBodies}
    \cup {Plain("DELETE", <<segApi, segDevices, id>>, NoBody) : id \in PathIds}

\* tokens configured in the environment and presented by clients
tAdm  == <<"a","d","m">>
tRd   == <<"r","d">>
tOld  == <<"o","l","d">>
tBad  == <<"b","a","d">>
sBasic == <<"B","a","s","i","c"," ">>

Pad(t) == <<" ">> \o t \o <<" ">>

\* <<Authorization header, x-file-explorer-token header, token query parameter>>
Credentials ==
    { <<Undef, Undef, Undef>>,
      <<sBearer \o tAdm, Undef, Undef>>,
      <<sBearerLower \o tRd, Undef, Undef>>,
      <<sBearer \o tBad, tAdm, tAdm>>,
      <<sBearer \o tOld, Undef, Undef>>,
      <<Undef, tRd, tAdm>>,
      <<Undef, Undef, tRd>>,
      <<Undef, Undef, Pad(tAdm)>>,
      <<sBasic \o tAdm, Undef, tAdm>> }

\* <<method, path, body>> of the requests of the auth specification
AuthRoutes ==
    { <<"GET", <<segApi, segAuth, segStatus>>, NoBody>>,
      <<"POST", <<segApi, segAuth, segStatus>>, NoBody>>,
      <<"GET", <<segApi, segDevices>>, NoBody>>,
      <<"POST", <<segApi, segDevices>>, [name |-> nAB, url |-> uA]>>,
      <<"PUT", <<segApi, segDevices, idAB>>, [enabled |-> FALSE]>>,
      <<"DELETE", <<segApi, segDevices, idAB>>, NoBody>>,
      <<"GET", <<segApi, segDownload>>, NoBody>>,
      <<"POST", <<segApi, segMkdir>>, NoBody>>,
      <<"OPTIONS", <<segApi, segFiles>>, NoBody>>,
      <<"GET", <<segApi, segD, sLocal, segDownload>>, NoBody>>,
      <<"POST", <<segApi, segD, sLocal, segMkdir>>, NoBody>>,
      <<"GET", <<segApi, segD, sLocal, segAuth, segStatus>>, NoBody>>,
      <<"GET", <<segApi, segD, idAB, segFiles>>, NoBody>>,
      <<"POST", <<segApi, segD, idAB, segMkdir>>, NoBody>>,
      <<"GET", <<segApi, segD, idNone, segFiles>>, NoBody>>,
      <<"PUT", <<segApi, segSettings>>, [localName |-> nAB]>>,
      <<"PUT", <<segApi, segD, sLocal, segSettings>>, [localName |-> nAB]>> }

AuthRequests ==
    { Request(rt[1], rt[2], c[1], c[2], c[3], rt[3]) : rt \in AuthRoutes, c \in Credentials }

\* the requests of the router specification, sent with and without the admin token
RouterRoutes ==
    { <<"GET", <<segApi, segDevices>>, NoBody>>,
      <<"POST", <<segApi, segDevices>>, [name |-> nAB, url |-> uASlash, authToken |-> tokS1]>>,
      <<"POST", <<segApi, segDevices>>, [sshHost |-> hMac]>>,
      <<"PUT", <<segApi, segDevices, idAB>>, [enabled |-> FALSE]>>,
      <<"PUT", <<segApi, segDevices, idAB>>, [enabled |-> TRUE, authToken |-> tokS2]>>,
      <<"PUT", <<segApi, segDevices, idAB>>, [authToken |-> <<>>]>>,
      <<"PUT", <<segApi, segDevices, idMac>>, [enabled |-> FALSE]>>,
      <<"DELETE", <<segApi, segDevices, idAB>>, NoBody>>,
      <<"GET", <<segApi, segD, sLocal, segFiles>>, NoBody>>,
      <<"GET", <<segApi, segD, idAB, segFiles>>, NoBody>>,
      <<"GET", <<segApi, segD, idMac, segFiles>>, NoBody>>,
      <<"GET", <<segApi, segD, idNone, segFiles>>, NoBody>>,
      <<"POST", <<segApi, segD, idAB, segMkdir>>, NoBody>>,
      <<"POST", <<segApi, segD, idMac, segMkdir>>, NoBody>>,
      <<"GET", <<segApi, segD, idMac, segRecent>>, NoBody>>,
      <<"DELETE", <<segApi, segD, idMac, segFiles>>, NoBody>>,
      <<"GET", <<segApi, segDevices, idAB, segHealth>>, NoBody>>,
      <<"PUT", <<segApi, segDevices, idAB>>, [url |-> uBad]>> }

\* reads of an HTTP device by callers that present the read token in the
\* custom header, a Basic Authorization header, and the admin token in the
\* query string
ReadRoutes ==
    { <<"GET", <<segApi, segD, idAB, segFiles>>, NoBody>>,
      <<"GET", <<segApi, segDevices, idAB, segHealth>>, NoBody>> }

ReadCallers ==
    { <<Undef, tRd, Undef>>, <<sBasic \o tAdm, Undef, Undef>>, <<Undef, Undef, tAdm>> }

RouterRequests ==
    { Request(rt[1], rt[2], c[1], c[2], c[3], rt[3]) :
        rt \in RouterRoutes,
        c \in {<<Undef, Undef, Undef>>, <<sBearer \o tAdm, Undef, Undef>>} }
    \cup { Request(rt[1], rt[2], c[1], c[2], c[3], rt[3]) :
              rt \in ReadRoutes, c \in ReadCallers }

\* the requests of the local-device specification
LocalRoutes ==
    { <<"GET", <<segApi, segDevices>>, NoBody>>,
      <<"POST", <<segApi, segDevices>>, [name |-> nAB, url |-> uASlash, authToken |-> tokS1]>>,
      <<"POST", <<segApi, segDevices>>, [sshHost |-> hMac]>>,
      <<"PUT", <<segApi, segDevices, sLocal>>, [enabled |-> FALSE]>>,
      <<"PUT", <<segApi, segDevices, idAB>>, [enabled |-> FALSE]>>,
      <<"DELETE", <<segApi, segDevices, sLocal>>, NoBody>>,
      <<"DELETE", <<segApi, segDevices, idAB>>, NoBody>>,
      <<"GET", <<segApi, segSettings>>, NoBody>>,
      <<"PUT", <<segApi, segSettings>>, [localName |-> nAB]>>,
      <<"PUT", <<segApi, segSettings>>, [localName |-> <<>>, localIcon |-> sIcon]>>,
      <<"GET", <<segApi, segDevices, sLocal, segHealth>>, NoBody>>,
      <<"GET", <<segApi, segDevices, idAB, segHealth>>, NoBody>>,
      <<"GET", <<segApi, segDevices, idMac, segHealth>>, NoBody>>,
      <<"GET", <<segApi, segDevices, idNone, segHealth>>, NoBody>> }

\* paths that local file requests ask for
FilePaths ==
    { <<>>, <<"d">>, <<"d","/",".",".","/","e">>, <<".",".","/",".",".","/","e">>,
      <<".",".","/","b","-","s">>, <<"l","/","s">>, <<"/","e">>, <<".">> }

FileRequests ==
    { WithQuery(Plain("GET", <<segApi, seg>>, NoBody), [path |-> p]) :
        seg \in {segFiles, segDownload}, p \in FilePaths }
    \cup { Plain("POST", <<segApi, segMkdir>>, [path |-> p]) : p \in FilePaths }

LocalRequests ==
    { Plain(rt[1], rt[2], rt[3]) : rt \in LocalRoutes } \cup FileRequests

EnvUnset ==
    [FILE_EXPLORER_API_TOKEN |-> Undef, FILE_EXPLORER_ADMIN_TOKEN |-> Undef,
     FILE_EXPLORER_READ_TOKEN |-> Undef]

EnvBoth ==
    [FILE_EXPLORER_API_TOKEN |-> tOld, FILE_EXPLORER_ADMIN_TOKEN |-> tAdm,
     FILE_EXPLORER_READ_TOKEN |-> Pad(tRd)]

EnvConfigs ==
    { EnvUnset,
      EnvBoth,
      [FILE_EXPLORER_API_TOKEN |-> Pad(tAdm), FILE_EXPLORER_ADMIN_TOKEN |-> Undef,
       FILE_EXPLORER_READ_TOKEN |-> Undef],
      [FILE_EXPLORER_API_TOKEN |-> Undef, FILE_EXPLORER_ADMIN_TOKEN |-> Undef,
       FILE_EXPLORER_READ_TOKEN |-> tRd],
      [FILE_EXPLORER_API_TOKEN |-> Undef, FILE_EXPLORER_ADMIN_TOKEN |-> tAdm,
       FILE_EXPLORER_READ_TOKEN |-> tAdm] }

-----------------------------------------------------------------------------
(* The server *)

\* the process has started and has answered nothing yet
Booted ==
    /\ devicesFile = <<>>
    /\ settingsFile = [localName |-> Undef, localIcon |-> Undef, comboViews |-> <<>>]
    /\ pending = <<>>
    /\ req = Plain("NONE", <<>>, NoBody)
    /\ res = [status |-> 0, body |-> <<>>]
    /\ ran = <<>>
    /\ net = <<>>
    /\ got = "none"
    /\ touched = <<>>
    /\ recentFiles = <<>>

Init == env = EnvUnset /\ Booted

Next ==
    \/ \E r \in RegistryRequests :
          \/ GetDevices(r)
          \/ PostDevices(r)
          \/ PutDevice(r)
          \/ DeleteDevice(r)
    \/ ProbeDone
    \/ BodyRead

Spec == Init /\ [][Next]_vars

(* The same server under every token configuration, answering the requests    *)
(* of AuthRequests one at a time: a request is taken up only when no handler  *)
(* is suspended.                                                              *)
\* no handler is suspended
Idle == pending = <<>>

InitAuth == env \in EnvConfigs /\ Booted

NextAuth ==
    \/ \E r \in AuthRequests :
          \/ Idle /\ AuthStatus(r)
          \/ Idle /\ GetDevices(r)
          \/ Idle /\ PostDevices(r)
          \/ Idle /\ PutDevice(r)
          \/ Idle /\ DeleteDevice(r)
          \/ Idle /\ LocalFileApi(r)
          \/ Idle /\ DeviceProxy(r)
          \/ Idle /\ NoRoute(r)
          \/ Idle /\ PutSettings(r)
    \/ ProbeDone
    \/ BodyRead

SpecAuth == InitAuth /\ [][NextAuth]_vars

(* The registry and the router with devices of both kinds, requests again     *)
(* answered one at a time.                                                    *)
InitRouter == env \in {EnvUnset, EnvBoth} /\ Booted

NextRouter ==
    \/ \E r \in RouterRequests :
          \/ Idle /\ GetDevices(r)
          \/ Idle /\ PostDevices(r)
          \/ Idle /\ PutDevice(r)
          \/ Idle /\ DeleteDevice(r)
          \/ Idle /\ DeviceProxy(r)
          \/ Idle /\ DeviceHealth(r)
    \/ ProbeDone
    \/ BodyRead

SpecRouter == InitRouter /\ [][NextRouter]_vars

(* One call of sshExec / sshExecBinary: the child process, the timer and the   *)
(* promise the call returns.  The call is held in pending as                  *)
(*   binary     sshExecBinary rather than sshExec                             *)
(*   timeoutMs  the timeout, elapsed the time since the spawn                 *)
(*   proc       "running", "killed" (proc.kill() called) or "closed"          *)
(*   timer      "armed", "fired" or "cleared"                                 *)
(*   stdout     the chunks received, closeCode the code of the close event    *)
(*   result     what the promise resolved with (empty while it has not),      *)
(*   settledAt  the time at which it did, resolves the calls of resolve()     *)

\* a later resolve() replaces the value of the promise
ResolveAgain(e, value) ==
    [e EXCEPT !.result = <<value>>, !.settledAt = e.elapsed, !.resolves = @ + 1]

\* resolve(value): only the first call settles the promise
Resolve(e, value) ==
    IF e.result = <<>>
    THEN [e EXCEPT !.result = <<value>>, !.settledAt = e.elapsed, !.resolves = @ + 1]
    ELSE [e EXCEPT !.resolves = @ + 1]

\* the call in flight
Exec == pending[1]

\* spawn("ssh", ...) and setTimeout(..., timeoutMs)
ExecSpawn ==
    /\ pending = <<>>
    /\ \E binary \in BOOLEAN, timeoutMs \in 1..MaxTimeout :
          pending' = <<[op |-> "exec", binary |-> binary, timeoutMs |-> timeoutMs,
                        elapsed |-> 0, proc |-> "running", timer |-> "armed",
                        stdout |-> <<>>, closeCode |-> <<>>,
                        result |-> <<>>, settledAt |-> 0, resolves |-> 0]>>
    /\ UNCHANGED <<env, devicesFile, settingsFile, req, res, ran, net, got, touched,
                   recentFiles>>

\* proc.stdout.on("data"): a chunk is appended
ExecData ==
    /\ pending # <<>> /\ Exec.op = "exec"
    /\ Exec.proc # "closed" /\ Exec.stdout = <<>>
    /\ pending' = <<[Exec EXCEPT !.stdout = <<"chunk">>]>>
    /\ UNCHANGED <<env, devicesFile, settingsFile, req, res, ran, net, got, touched,
                   recentFiles>>

\* time passes; an armed timer fires before the clock passes its deadline
ExecTick ==
    /\ pending # <<>> /\ Exec.op = "exec"
    /\ Exec.elapsed <= MaxTimeout
    /\ Exec.timer = "armed" => Exec.elapsed < Exec.timeoutMs
    /\ pending' = <<[Exec EXCEPT !.elapsed = @ + 1]>>
    /\ UNCHANGED <<env, devicesFile, settingsFile, req, res, ran, net, got, touched,
                   recentFiles>>

\* the timer's callback: proc.kill(); resolve({ ..., code: 124 })
ExecTimeout ==
    /\ pending # <<>> /\ Exec.op = "exec"
    /\ Exec.timer = "armed" /\ Exec.elapsed = Exec.timeoutMs
    /\ pending' = <<Resolve([Exec EXCEPT !.timer = "fired",
                                         !.proc = IF @ = "running" THEN "killed" ELSE @],
                            [stdout |-> Exec.stdout, code |-> 124])>>
    /\ UNCHANGED <<env, devicesFile, settingsFile, req, res, ran, net, got, touched,
                   recentFiles>>

\* proc.on("close"): clearTimeout(timer); resolve({ ..., code: code ?? 1 })
ExecClose ==
    /\ pending # <<>> /\ Exec.op = "exec"
    /\ Exec.proc # "closed"
    /\ \E code \in {<<0>>, <<255>>, <<>>} :
          pending' = <<Resolve([Exec EXCEPT !.proc = "closed", !.closeCode = code,
                                           !.timer = IF @ = "armed" THEN "cleared" ELSE @],
                              [stdout |-> Exec.stdout,
                               code |-> IF code = <<>> THEN 1 ELSE code[1]])>>
    /\ UNCHANGED <<env, devicesFile, settingsFile, req, res, ran, net, got, touched,
                   recentFiles>>

\* the caller's await returns the result; the child is gone
ExecDone ==
    /\ pending # <<>> /\ Exec.op = "exec"
    /\ Exec.proc = "closed" /\ Exec.result # <<>>
    /\ pending' = <<>>
    /\ got' = IF Exec.result[1].code = 0 THEN "ok" ELSE "fail"
    /\ UNCHANGED <<env, devicesFile, settingsFile, req, res, ran, net, touched, recentFiles>>

NextExec ==
    \/ ExecSpawn
    \/ ExecData
    \/ ExecTick
    \/ ExecTimeout
    \/ ExecClose
    \/ ExecDone

InitExec == env = EnvUnset /\ Booted

SpecExec == InitExec /\ [][NextExec]_vars

(* SSH devices behind the router with auth off: two hosts are added and then  *)
(* asked for every operation of the file API, one request at a time.          *)
pDir  == <<"d">>
pMd   == <<"d","/","f",".","m","d">>
pPng  == <<"f",".","P","N","G">>
pZip  == <<"f",".","z","i","p">>
qOne  == <<"f">>
qTwo  == <<"f",".">>
segUpload == <<"u","p","l","o","a","d">>

SshAddBodies == { [sshHost |-> hMac], [sshHost |-> hAB, sshRoot |-> sRoot] }

\* <<method, operation, query, body>>
SshOps ==
    { <<"GET", segFiles, <<>>, NoBody>>,
      <<"GET", segFiles, [path |-> pDir], NoBody>>,
      <<"POST", segFiles, <<>>, NoBody>>,
      <<"GET", segSearch, [q |-> qOne], NoBody>>,
      <<"GET", segSearch, [q |-> qTwo, path |-> pDir], NoBody>>,
      <<"GET", segPreview, <<>>, NoBody>>,
      <<"GET", segPreview, [path |-> pMd], NoBody>>,
      <<"GET", segPreview, [path |-> pPng], NoBody>>,
      <<"GET", segPreview, [path |-> pZip], NoBody>>,
      <<"GET", segInfo, [path |-> pMd], NoBody>>,
      <<"GET", segDownload, [path |-> pMd], NoBody>>,
      <<"POST", segMkdir, <<>>, [path |-> pDir]>>,
      <<"POST", segTouch, <<>>, [path |-> pMd, content |-> qOne]>>,
      <<"POST", segRename, <<>>, [from |-> pMd, to |-> pZip]>>,
      <<"POST", segDelete, <<>>, [path |-> pMd]>>,
      <<"POST", segDelete, <<>>, [path |-> <<>>]>>,
      <<"POST", segSave, <<>>, [path |-> pMd, content |-> qOne]>>,
      <<"POST", segDuplicate, <<>>, [path |-> pMd]>>,
      <<"GET", segRecent, <<>>, NoBody>>,
      <<"POST", segUpload, <<>>, NoBody>>,
      <<"GET", segStatus, <<>>, NoBody>> }

SshRequests ==
    { Plain("POST", <<segApi, segDevices>>, b) : b \in SshAddBodies }
    \cup { WithQuery(Plain(o[1], <<segApi, segD, id, o[2]>>, o[4]), o[3]) :
              o \in SshOps, id \in {idMac, idAB} }

InitSsh == env = EnvUnset /\ Booted

NextSsh ==
    \/ \E r \in SshRequests :
          \/ Idle /\ PostDevices(r)
          \/ Idle /\ DeviceProxy(r)
    \/ ProbeDone

SpecSsh == InitSsh /\ [][NextSsh]_vars

(* The settings store (local name and icon, combo views) next to the device   *)
(* registry with auth off, requests answered one at a time.                   *)
ComboRoutes ==
    { <<"GET", <<segApi, segCombos>>, NoBody>>,
      <<"POST", <<segApi, segCombos>>, [name |-> nAB, deviceIds |-> <<idMac, idNone>>]>>,
      <<"POST", <<segApi, segCombos>>, [name |-> nAb2, deviceIds |-> <<idMac>>, icon |-> sIcon]>>,
      <<"POST", <<segApi, segCombos>>, [name |-> nBang, deviceIds |-> <<idMac>>]>>,
      <<"POST", <<segApi, segCombos>>, [deviceIds |-> <<idMac>>]>>,
      <<"POST", <<segApi, segCombos>>, [name |-> nAB]>>,
      <<"POST", <<segApi, segCombos>>, [name |-> nAB, deviceIds |-> Obj]>>,
      <<"POST", <<segApi, segCombos>>, [name |-> nAB, deviceIds |-> <<>>]>>,
      <<"PUT", <<segApi, segCombos, idAB>>, [name |-> nLocal]>>,
      <<"PUT", <<segApi, segCombos, idAB>>, [deviceIds |-> <<>>]>>,
      <<"PUT", <<segApi, segCombos, idNone>>, [name |-> nLocal]>>,
      <<"DELETE", <<segApi, segCombos, idAB>>, NoBody>>,
      <<"DELETE", <<segApi, segCombos, idNone>>, NoBody>>,
      <<"GET", <<segApi, segSettings>>, NoBody>>,
      <<"PUT", <<segApi, segSettings>>, [localName |-> nAB, comboViews |-> <<>>]>>,
      <<"PUT", <<segApi, segSettings>>, [localName |-> <<>>, localIcon |-> sIcon]>>,
      <<"GET", <<segApi, segDevices>>, NoBody>>,
      <<"POST", <<segApi, segDevices>>, [sshHost |-> hMac]>>,
      <<"PUT", <<segApi, segDevices, idMac>>, [enabled |-> FALSE]>>,
      <<"DELETE", <<segApi, segDevices, idMac>>, NoBody>> }

ComboRequests == { Plain(rt[1], rt[2], rt[3]) : rt \in ComboRoutes }

InitCombo == env = EnvUnset /\ Booted

NextCombo ==
    \/ \E r \in ComboRequests :
          \/ Idle /\ GetCombos(r)
          \/ Idle /\ PostCombos(r)
          \/ Idle /\ PutCombo(r)
          \/ Idle /\ DeleteCombo(r)
          \/ Idle /\ GetSettings(r)
          \/ Idle /\ PutSettings(r)
          \/ Idle /\ GetDevices(r)
          \/ Idle /\ PostDevices(r)
          \/ Idle /\ PutDevice(r)
          \/ Idle /\ DeleteDevice(r)
    \/ ComboBodyRead
    \/ ProbeDone
    \/ BodyRead

SpecCombo == InitCombo /\ [][NextCombo]_vars

(* Writers of the two files that overlap: a handler suspended at an await     *)
(* holds the file as it loaded it while other requests are answered.          *)
OverlapRoutes ==
    { <<"POST", <<segApi, segDevices>>, [sshHost |-> hMac]>>,
      <<"PUT", <<segApi, segDevices, idMac>>, [enabled |-> FALSE]>>,
      <<"DELETE", <<segApi, segDevices, idMac>>, NoBody>>,
      <<"POST", <<segApi, segCombos>>, [name |-> nAB, deviceIds |-> <<idMac>>]>>,
      <<"PUT", <<segApi, segCombos, idAB>>, [name |-> nLocal]>>,
      <<"DELETE", <<segApi, segCombos, idAB>>, NoBody>>,
      <<"PUT", <<segApi, segSettings>>, [localName |-> nAB]>> }

OverlapRequests == { Plain(rt[1], rt[2], rt[3]) : rt \in OverlapRoutes }

NextOverlap ==
    \/ \E r \in OverlapRequests :
          \/ PostDevices(r)
          \/ PutDevice(r)
          \/ DeleteDevice(r)
          \/ PostCombos(r)
          \/ PutCombo(r)
          \/ DeleteCombo(r)
          \/ PutSettings(r)
    \/ ComboBodyRead
    \/ ProbeDone
    \/ BodyRead

SpecOverlap == InitCombo /\ [][NextOverlap]_vars

(* The registry, the settings and the health check with auth off, requests    *)
(* answered one at a time.                                                    *)
InitLocal == env = EnvUnset /\ Booted

NextLocal ==
    \/ \E r \in LocalRequests :
          \/ Idle /\ GetDevices(r)
          \/ Idle /\ PostDevices(r)
          \/ Idle /\ PutDevice(r)
          \/ Idle /\ DeleteDevice(r)
          \/ Idle /\ DeviceHealth(r)
          \/ Idle /\ GetSettings(r)
          \/ Idle /\ PutSettings(r)
          \/ Idle /\ LocalFileApi(r)
    \/ ProbeDone
    \/ BodyRead

SpecLocal == InitLocal /\ [][NextLocal]_vars

(* The recent list: app.get("/api/recent") and app.post("/api/recent")        *)

\* recentFiles.filter(f => f.path !== filePath)
WithoutPath(files, filePath) == SelectSeq(files, LAMBDA f : f.path # filePath)

\* recentFiles.unshift(entry)
Unshift(files, entry) == <<entry>> \o files

\* the entries tracked last are the ones cut off
TrimToMaxFromFront(files) ==
    IF Len(files) > MAX_RECENT
    THEN SubSeq(files, Len(files) - MAX_RECENT + 1, Len(files))
    ELSE files

\* if (recentFiles.length > MAX_RECENT) recentFiles = recentFiles.slice(0, MAX_RECENT)
TrimToMax(files) ==
    IF Len(files) > MAX_RECENT THEN SubSeq(files, 1, MAX_RECENT) ELSE files

\* app.get("/api/recent")
GetRecent(r) ==
    /\ IsGetRecent(r)
    /\ IF ~Passed(r) THEN Denied(r)
       ELSE /\ Respond(r, 200, [files |-> recentFiles], <<"GET /api/recent">>, <<>>)
            /\ UNCHANGED <<env, settingsFile, devicesFile, pending>>

\* app.post("/api/recent")
PostRecent(r) ==
    /\ IsPostRecent(r)
    /\ IF ~Passed(r) THEN Denied(r)
       ELSE \E now \in 1..MaxNow :
            LET filePath == Field(r.body, "path")
                entry == [path |-> filePath, name |-> Field(r.body, "name"),
                          accessedAt |-> now, type |-> Field(r.body, "type"),
                          size |-> Field(r.body, "size")]
            IN  /\ recentFiles' = TrimToMax(Unshift(WithoutPath(recentFiles, filePath), entry))
                /\ req' = r
                /\ res' = [status |-> 200, body |-> [success |-> TRUE]]
                /\ ran' = <<"POST /api/recent">>
                /\ net' = <<>>
                /\ got' = "none"
                /\ touched' = <<>>
                /\ UNCHANGED <<env, settingsFile, devicesFile, pending>>

\* the files the client tracks; the last payload has no path
sFile == <<"f","i","l","e">>
sOne == <<"1">>
sTwo == <<"2">>

RecentRequests ==
    { Plain("GET", <<segApi, segRecent>>, NoBody) }
    \cup { Plain("POST", <<segApi, segRecent>>,
                 [path |-> p, name |-> p, type |-> sFile, size |-> s]) :
             p \in {pDir, pMd, pPng, pZip}, s \in {sOne, sTwo} }
    \cup { Plain("POST", <<segApi, segRecent>>, [name |-> pDir]) }

InitRecent == env = EnvUnset /\ Booted

NextRecent ==
    \E r \in RecentRequests :
        \/ GetRecent(r)
        \/ PostRecent(r)

SpecRecent == InitRecent /\ [][NextRecent]_vars

-----------------------------------------------------------------------------
(* Notions the properties below are stated with *)

AuthStatusPath == <<segApi, segAuth, segStatus>>

\* some request has been taken up
Answered == req.method # "NONE"

WriteMethod(m) == m \notin {"GET", "HEAD", "OPTIONS"}

RoleOf(r) == getAuthRole(getTokenFromRequest(r))

\* the name an add payload gives the device
AddName(body) ==
    IF Truthy(Field(body, "sshHost"))
    THEN (IF Truthy(Field(body, "name")) THEN body.name ELSE body.sshHost)
    ELSE Field(body, "name")

\* the payload has the fields its mode requires
ValidAdd(body) ==
    Truthy(Field(body, "sshHost"))
    \/ (Truthy(Field(body, "name")) /\ Truthy(Field(body, "url")))

-----------------------------------------------------------------------------
(* C1: a routed request for a device id other than "local" that passed the   *)
(* Auth Gate is answered 404 when no persisted device has the id and 403     *)
(* when the device is disabled, and in both cases no outbound fetch and no   *)
(* ssh process is started for it.                                            *)
C1_RefusedBeforeAnyCall ==
    (Answered /\ IsProxy(req) /\ req.path[3] # sLocal /\ Passed(req)) =>
        /\ ~HasId(devicesFile, req.path[3]) => (res.status = 404 /\ net = <<>>)
        /\ (HasId(devicesFile, req.path[3])
            /\ devicesFile[FindIndex(devicesFile, req.path[3])].enabled = FALSE)
              => (res.status = 403 /\ net = <<>>)

C1_Witness ==
    /\ IsProxy(req) /\ req.path[3] = idMac /\ AUTH_ENABLED /\ Passed(req)
    /\ HasId(devicesFile, idMac)
    /\ ~devicesFile[FindIndex(devicesFile, idMac)].enabled
    /\ res.status = 403 /\ net = <<>>

(* C2: with a token configured, a request to any /api route other than       *)
(* /api/auth/status whose token is missing or equals neither secret is       *)
(* answered 401 and no handler is entered; /api/auth/status is answered      *)
(* whatever the request carries.                                             *)
C2_AuthGateFailsClosed ==
    Answered =>
        /\ (AUTH_ENABLED /\ req.path # AuthStatusPath
            /\ LET t == getTokenFromRequest(req)
               IN  t = Undef \/ (t # ADMIN_API_TOKEN /\ t # READ_API_TOKEN))
              => (res.status = 401 /\ ran = <<>> /\ net = <<>>)
        /\ IsAuthStatus(req) => (res.status = 200 /\ ran = <<"GET /api/auth/status">>)

C2_Witness ==
    /\ AUTH_ENABLED /\ IsPostDevices(req)
    /\ getTokenFromRequest(req) = tBad /\ req.qtoken = tAdm
    /\ res.status = 401 /\ ran = <<>>

(* C3: with auth enabled, a write method (anything but GET, HEAD, OPTIONS)   *)
(* reaches a handler only for the admin role: a read-role write is answered  *)
(* 403 on every /api route behind the gate, the routed surface included,     *)
(* before any handler, registry write or outbound call; read-role reads and  *)
(* admin-role writes go on to the handlers.                                  *)
C3_Gate ==
    (Answered /\ AUTH_ENABLED /\ req.path # AuthStatusPath) =>
        /\ (RoleOf(req) = "read" /\ WriteMethod(req.method))
              => (res.status = 403 /\ ran = <<>> /\ net = <<>>)
        /\ (WriteMethod(req.method) /\ ran # <<>>) => RoleOf(req) = "admin"
        /\ (RoleOf(req) = "read" /\ ~WriteMethod(req.method)) => ran # <<>>
        /\ RoleOf(req) = "admin" => ran # <<>>

ConfiguredAdminToken ==
    IF env.FILE_EXPLORER_ADMIN_TOKEN # Undef
    THEN Trim(env.FILE_EXPLORER_ADMIN_TOKEN)
    ELSE IF env.FILE_EXPLORER_API_TOKEN # Undef THEN Trim(env.FILE_EXPLORER_API_TOKEN)
    ELSE <<>>

ConfiguredReadToken ==
    IF env.FILE_EXPLORER_READ_TOKEN # Undef THEN Trim(env.FILE_EXPLORER_READ_TOKEN) ELSE <<>>

ExpectedRole(t) ==
    IF ConfiguredAdminToken = <<>> /\ ConfiguredReadToken = <<>> THEN "admin"
    ELSE IF t # Undef /\ t = ConfiguredAdminToken THEN "admin"
    ELSE IF t # Undef /\ t = ConfiguredReadToken THEN "read"
    ELSE "none"

C4_RoleResolution ==
    Answered =>
        /\ RoleOf(req) = ExpectedRole(getTokenFromRequest(req))
        /\ (ConfiguredAdminToken = <<>> /\ ConfiguredReadToken = <<>>)
              => (res.status # 401 /\ ran # <<>>)

C4_Witness ==
    /\ env.FILE_EXPLORER_ADMIN_TOKEN = Undef /\ env.FILE_EXPLORER_API_TOKEN # Undef
    /\ getTokenFromRequest(req) = tAdm /\ RoleOf(req) = "admin"
    /\ IsDeleteDevice(req) /\ res.status = 200

(* C5: the token used is the first one present among the Authorization       *)
(* Bearer header, the x-file-explorer-token header and the token query       *)
(* parameter, in that order; a valid token given only in the query           *)
(* parameter authenticates the request with its role.                        *)
BearerPresent(r) ==
    StartsWith(ToLowerCase(Trim(OrEmpty(r.authorization))), sBearerLower)

FirstPresentToken(r) ==
    IF BearerPresent(r) THEN Trim(Slice(Trim(r.authorization), 7))
    ELSE IF Trim(OrEmpty(r.xtoken)) # <<>> THEN Trim(r.xtoken)
    ELSE IF Trim(OrEmpty(r.qtoken)) # <<>> THEN Trim(r.qtoken)
    ELSE Undef

QueryOnly(r) == r.authorization = Undef /\ r.xtoken = Undef /\ Truthy(r.qtoken)

C6_QueryTokenRejected ==
    (Answered /\ AUTH_ENABLED /\ req.path # AuthStatusPath /\ QueryOnly(req))
        => res.status = 401

UniqueIds(devices) ==
    \A i, j \in 1..Len(devices) : devices[i].id = devices[j].id => i = j

IdsOf(devices) == {devices[i].id : i \in 1..Len(devices)}

\* the step takes up an add request (its completion records the probe's outcome)
AddTakenUp == IsPostDevices(req') /\ got' = "none" /\ Passed(req')

\* the add request was answered after its probe passed
AddProbed == Answered /\ IsPostDevices(req) /\ got = "ok"

(* C7: the persisted device list never holds a device with id "local"        *)
(* whatever adds, updates and removes have run, and an add with the fields   *)
(* of its mode (HTTP or SSH) whose name slugifies to "local" is answered     *)
(* 409 without a probe.                                                      *)
C7_LocalReserved ==
    /\ ~HasId(devicesFile, sLocal)
    /\ \A i \in 1..Len(pending) : pending[i].id # sLocal
    /\ (Answered /\ IsPostDevices(req) /\ Passed(req) /\ ValidAdd(req.body)
        /\ Slugify(AddName(req.body)) = sLocal)
          => (res.status = 409 /\ net = <<>>)

C7_Witness ==
    /\ IsPostDevices(req) /\ Truthy(Field(req.body, "sshHost"))
    /\ Slugify(AddName(req.body)) = sLocal
    /\ res.status = 409 /\ Len(devicesFile) = MaxDevices

(* C8: in every interleaving of adds, updates and removes no two persisted   *)
(* devices share an id, and an add whose slugified name is the id of a       *)
(* device registered when it is taken up is answered 409 and leaves the      *)
(* registry as it was.                                                       *)
C8_UniqueIds ==
    /\ []UniqueIds(devicesFile)
    /\ [][(AddTakenUp /\ ValidAdd(req'.body)
           /\ HasId(devicesFile, Slugify(AddName(req'.body))))
            => (res'.status = 409 /\ devicesFile' = devicesFile
                /\ pending' = pending /\ net' = <<>>)]_vars

C8_Witness ==
    /\ IsPostDevices(req) /\ Field(req.body, "sshHost") = hAB
    /\ res.status = 409
    /\ HasId(devicesFile, idAB)
    /\ devicesFile[FindIndex(devicesFile, idAB)].sshHost = Undef
    /\ pending # <<>>

(* C9, as stated: an add whose probe passed succeeds with the slug of its    *)
(* name as id and the device enabled, and a persisted device leaves the      *)
(* list only through a remove of its id.                                     *)
C9_SlugIdUntilRemoved ==
    /\ [](AddProbed =>
            /\ res.status = 200
            /\ res.body.device.id = Slugify(AddName(req.body))
            /\ res.body.device.enabled)
    /\ [][\A id \in IdsOf(devicesFile) :
            ~HasId(devicesFile', id)
              => (IsDeleteDevice(req') /\ req'.path[3] = id /\ res'.status = 200)]_vars

\* the step is a save by a handler that loaded the registry without the id
StaleSave(id) ==
    \E i \in 1..Len(pending) :
        /\ pending' = RemoveAt(pending, i)
        /\ ~HasId(pending[i].devices, id)
        /\ devicesFile' # devicesFile

(* C9, amended: an add whose probe passed succeeds; the id is the slug of    *)
(* the name when that slug is not empty and "device-" followed by the        *)
(* timestamp otherwise; the device is stored enabled under that id when the  *)
(* add answers; a list shows exactly the stored devices; and a stored        *)
(* device leaves the list only through a remove of its id or through a save  *)
(* by a handler that loaded the registry when the device was not in it.      *)
C9_IdAndPersistence ==
    /\ [](AddProbed =>
            /\ res.status = 200
            /\ LET id == res.body.device.id
                   slug == Slugify(AddName(req.body))
               IN  /\ IF slug # <<>> THEN id = slug
                       ELSE StartsWith(id, sDevicePfx) /\ Len(id) = Len(sDevicePfx) + 1
                   /\ res.body.device.enabled
                   /\ HasId(devicesFile, id)
                   /\ devicesFile[FindIndex(devicesFile, id)].enabled)
    /\ []((Answered /\ IsGetDevices(req) /\ res.status = 200) =>
            /\ Len(res.body.devices) = Len(devicesFile) + 1
            /\ \A i \in 1..Len(devicesFile) :
                  res.body.devices[i + 1].id = devicesFile[i].id)
    /\ [][\A id \in IdsOf(devicesFile) :
            ~HasId(devicesFile', id)
              => \/ IsDeleteDevice(req') /\ req'.path[3] = id /\ res'.status = 200
                 \/ StaleSave(id)]_vars

C9_Witness ==
    /\ AddProbed /\ Field(req.body, "name") = nBang
    /\ res.status = 200 /\ res.body.device.id = idDev1
    /\ HasId(devicesFile, idDev1) /\ Len(devicesFile) = 1
    /\ pending # <<>>

(* C10: a list, add or update response holds no authToken field for any      *)
(* device, only hasAuthToken, which is true exactly when a non-empty token   *)
(* is stored; the response is the one the registry would give with every     *)
(* stored token replaced by another value.                                   *)
OtherToken == <<"x">>

Redact(device) ==
    [device EXCEPT !.authToken = IF Truthy(@) THEN OtherToken ELSE @]

PublicOnly(d, stored) ==
    /\ "authToken" \notin DOMAIN d
    /\ "hasAuthToken" \in DOMAIN d
    /\ d.hasAuthToken = Truthy(stored.authToken)

C10_NoRawToken ==
    /\ (Answered /\ IsGetDevices(req) /\ res.status = 200) =>
          /\ Len(res.body.devices) = Len(devicesFile) + 1
          /\ "authToken" \notin DOMAIN res.body.devices[1]
          /\ \A i \in 1..Len(devicesFile) :
                PublicOnly(res.body.devices[i + 1], devicesFile[i])
          /\ res.body = ListBody([i \in 1..Len(devicesFile) |-> Redact(devicesFile[i])])
    /\ (Answered /\ (IsPostDevices(req) \/ IsPutDevice(req)) /\ res.status = 200) =>
          LET stored == devicesFile[FindIndex(devicesFile, res.body.device.id)]
          IN  /\ HasId(devicesFile, res.body.device.id)
              /\ PublicOnly(res.body.device, stored)
              /\ res.body.device = toPublicDevice(Redact(stored))

C10_Witness ==
    /\ IsGetDevices(req) /\ res.status = 200
    /\ Len(devicesFile) = 2
    /\ \E i \in 1..2 : devicesFile[i].authToken = tokS2
    /\ \E i \in 1..2 : devicesFile[i].authToken = Undef
    /\ res.body.devices[2].hasAuthToken # res.body.devices[3].hasAuthToken

(* C11: an update of "local" is answered 400 and an update of an id the      *)
(* registry does not hold 404, both without a registry write; otherwise the  *)
(* saved registry is the one the update loaded with exactly the provided     *)
(* fields among name, url, icon, enabled and authToken of that device        *)
(* overwritten (an empty authToken clears the stored token); its id, sshHost *)
(* and sshRoot and every other device are as loaded.                         *)
Overwritten(d, body) ==
    [f \in DOMAIN d |->
        IF f \in {"name", "icon", "enabled"} /\ f \in DOMAIN body THEN body[f]
        ELSE IF f = "url" /\ f \in DOMAIN body THEN StripTrailingSlashes(body.url)
        ELSE IF f = "authToken" /\ f \in DOMAIN body
        THEN (IF Trim(body.authToken) # <<>> THEN Trim(body.authToken) ELSE Undef)
        ELSE d[f]]

\* the step completes the update held at position i of pending
UpdateSavedAs(i) ==
    LET old == pending[i].devices
        id == req'.path[3]
    IN  /\ pending[i].op = "update" /\ pending[i].r = req'
        /\ pending' = RemoveAt(pending, i)
        /\ HasId(old, id)
        /\ Len(devicesFile') = Len(old)
        /\ \A j \in 1..Len(old) :
              devicesFile'[j] = IF old[j].id = id THEN Overwritten(old[j], req'.body)
                                ELSE old[j]
        /\ old = devicesFile =>
              \A j \in 1..Len(devicesFile) :
                 devicesFile[j].id # id => devicesFile'[j] = devicesFile[j]

C12_RemoveExact ==
    [][(IsDeleteDevice(req') /\ Passed(req')) =>
          LET id == req'.path[3]
          IN  /\ pending' = pending
              /\ id = sLocal => (res'.status = 400 /\ devicesFile' = devicesFile)
              /\ (id # sLocal /\ ~HasId(devicesFile, id))
                    => (res'.status = 404 /\ devicesFile' = devicesFile)
              /\ (id # sLocal /\ HasId(devicesFile, id)) =>
                    /\ res'.status = 200
                    /\ devicesFile' = SelectSeq(devicesFile, LAMBDA d : d.id # id)
                    /\ Len(devicesFile') = Len(devicesFile) - 1]_vars

C12_Witness ==
    /\ IsDeleteDevice(req) /\ res.status = 200 /\ req.path[3] = idAB
    /\ Len(devicesFile) = 1 /\ devicesFile[1].id = idDev1
    /\ pending # <<>>

(* C13: a health check of "local" is answered {status: ok, latency: 0} in    *)
(* every registry and settings state and starts no fetch and no ssh; for a   *)
(* registered device whose probe fails (the fetch throws or times out, ssh   *)
(* exits non-zero or prints no "ok") every health check answers status       *)
(* "unreachable".                                                            *)
HealthAnswered == Answered /\ IsHealth(req) /\ Passed(req)

C13_HealthLocalAndUnreachable ==
    HealthAnswered =>
        /\ req.path[3] = sLocal =>
              /\ res.status = 200
              /\ res.body = [status |-> "ok", latency |-> 0]
              /\ net = <<>>
        /\ (req.path[3] # sLocal /\ HasId(devicesFile, req.path[3])) =>
              LET device == devicesFile[FindIndex(devicesFile, req.path[3])]
                  failed == IF Truthy(device.sshHost)
                            THEN got \in {"fail", "throw", "mute"}
                            ELSE got = "throw"
              IN  /\ res.status = 200
                  /\ failed => res.body.status = "unreachable"
                  /\ res.body.status = "unreachable" => failed

C13_Witness ==
    /\ HealthAnswered /\ req.path[3] = idAB /\ got = "throw"
    /\ res.body.status = "unreachable" /\ net # <<>>
    /\ Truthy(settingsFile.localIcon) /\ Len(devicesFile) = 2

(* C14: every list has the local entry first (id "local", isLocal and        *)
(* enabled true, name and icon taken from the current settings, the host     *)
(* name and default icon when unset), followed by exactly the persisted      *)
(* devices in their stored order; no registry operation removes, disables    *)
(* or moves the local entry.                                                 *)
C14_LocalFirst ==
    /\ (Answered /\ IsGetDevices(req) /\ res.status = 200) =>
          /\ Len(res.body.devices) = Len(devicesFile) + 1
          /\ res.body.devices[1] =
                [id |-> sLocal,
                 name |-> IF Truthy(settingsFile.localName) THEN settingsFile.localName
                          ELSE sHostname,
                 url |-> <<>>,
                 icon |-> IF Truthy(settingsFile.localIcon) THEN settingsFile.localIcon
                          ELSE sDefaultIcon,
                 enabled |-> TRUE, isLocal |-> TRUE]
          /\ \A i \in 1..Len(devicesFile) :
                /\ res.body.devices[i + 1].id = devicesFile[i].id
                /\ res.body.devices[i + 1].name = devicesFile[i].name
                /\ res.body.devices[i + 1].enabled = devicesFile[i].enabled
                /\ "isLocal" \notin DOMAIN res.body.devices[i + 1]
    /\ (Answered /\ (IsPutDevice(req) \/ IsDeleteDevice(req)) /\ req.path[3] = sLocal
        /\ Passed(req)) => res.status = 400

C14_Witness ==
    /\ IsGetDevices(req) /\ res.status = 200
    /\ settingsFile.localName = nAB /\ settingsFile.localIcon = sIcon
    /\ res.body.devices[1].name = nAB /\ res.body.devices[1].icon = sIcon
    /\ Len(devicesFile) = 2 /\ devicesFile[1].id = idMac
    /\ ~devicesFile[2].enabled

(* C15, as stated: in every auth configuration the answer to                 *)
(* /api/d/local/{rest} has the status and body that /api/{rest} gives        *)
(* directly for the same request in the same state.                          *)
\* the request as sent directly: the same method, headers, query and body
Direct(r) == [r EXCEPT !.path = <<segApi>> \o SubSeq(r.path, 4, Len(r.path))]

\* the answers the server gives to r sent directly, in the state reached
DirectAnswers(r) ==
    IF IsPutSettings(r) /\ AuthMiddleware(r) = 0
    THEN {[status |-> 200, body |-> [success |-> TRUE, settings |-> settingsFile]]}
    ELSE {[status |-> ServeDirect(r, fs).status, body |-> ServeDirect(r, fs).body] :
            fs \in FsOutcomes}

LocalAnswered == Answered /\ IsProxy(req) /\ req.path[3] = sLocal

C15_LocalSameAsDirect ==
    LocalAnswered => res \in DirectAnswers(Direct(req))

\* what a settings update with this body makes of the stored settings
SettingsAfter(settings, body) ==
    [f \in DOMAIN settings |->
        IF f \in DOMAIN body THEN (IF body[f] # <<>> THEN body[f] ELSE Undef)
        ELSE settings[f]]

(* C15, amended: the answer to /api/d/local/{rest} has the status and body   *)
(* of the direct answer to /api/{rest} whenever rest is not auth/status or   *)
(* the request passes the Auth Gate; the effect on the local state is the    *)
(* one of the direct request (a settings update writes the same settings,    *)
(* a read writes nothing).                                                   *)
C15_LocalSameWhenGated ==
    /\ []((LocalAnswered
           /\ (SubSeq(req.path, 4, Len(req.path)) # <<segAuth, segStatus>> \/ Passed(req)))
            => res \in DirectAnswers(Direct(req)))
    /\ [][(IsProxy(req') /\ req'.path[3] = sLocal) =>
            /\ devicesFile' = devicesFile /\ pending' = pending
            /\ settingsFile' =
                  IF IsPutSettings(Direct(req')) /\ Passed(req')
                  THEN SettingsAfter(settingsFile, req'.body) ELSE settingsFile]_vars
    /\ [][IsPutSettings(req') =>
            /\ devicesFile' = devicesFile /\ pending' = pending
            /\ settingsFile' =
                  IF Passed(req') THEN SettingsAfter(settingsFile, req'.body)
                  ELSE settingsFile]_vars

C15_Witness ==
    /\ LocalAnswered /\ AUTH_ENABLED /\ RoleOf(req) = "admin"
    /\ IsPutSettings(Direct(req))
    /\ res.status = 200 /\ settingsFile.localName = nAB
    /\ res.body.settings.localName = nAB

(* C16, as stated: the Authorization header of a fetch to a remote HTTP      *)
(* device (router, add probe, health check) is the device's stored token     *)
(* (for add: the payload's token) when non-empty, else the caller's token,   *)
(* else the hub's admin token, else there is no Authorization header.        *)
Bearerize(t) == IF StartsWith(t, sBearer) THEN t ELSE sBearer \o t

ForwardExpected(r, explicit) ==
    IF explicit # Undef /\ Trim(explicit) # <<>> THEN Bearerize(Trim(explicit))
    ELSE IF FirstPresentToken(r) # Undef THEN Bearerize(FirstPresentToken(r))
    ELSE IF ConfiguredAdminToken # <<>> THEN Bearerize(ConfiguredAdminToken)
    ELSE Undef

\* the last step started a fetch for the request it answers
Fetched == Answered /\ Len(net) = 1 /\ net[1].kind = "fetch"

\* the token that ranks first for that fetch
OwnToken ==
    IF IsPostDevices(req) THEN Field(req.body, "authToken")
    ELSE devicesFile[FindIndex(devicesFile, req.path[3])].authToken

C16_ForwardOrNone ==
    Fetched => net[1].authorization = ForwardExpected(req, OwnToken)

(* C16, amended: the hub sets the Authorization header by that priority      *)
(* (stored or payload token, else the caller's token, else the admin         *)
(* token); when none of the three exists the add probe and the health check  *)
(* send no Authorization header, and the router leaves the caller's headers  *)
(* as they came, an Authorization header that is not a Bearer token          *)
(* included.                                                                 *)
C16_ForwardPriority ==
    /\ Fetched =>
          net[1].authorization =
             IF ForwardExpected(req, OwnToken) # Undef THEN ForwardExpected(req, OwnToken)
             ELSE IF IsProxy(req) THEN req.authorization
             ELSE Undef
    /\ \A r \in RouterRequests : \A e \in {Undef, <<>>, tokS1, sBearer \o tokS2} :
          getForwardAuthHeader(r, e) = ForwardExpected(r, e)

C16_Witness ==
    /\ Fetched /\ IsProxy(req) /\ AUTH_ENABLED
    /\ req.xtoken = tRd /\ OwnToken = Undef
    /\ net[1].authorization = sBearer \o tRd
    /\ ADMIN_API_TOKEN = tAdm

(* C17, as stated: for an enabled HTTP device the router starts exactly one  *)
(* outbound request per incoming request (same method, query parameters      *)
(* copied, Host removed, target {device.url}/api/{rest}) and returns the     *)
(* remote's status and body as they are; it answers 502 with an error only   *)
(* when the fetch itself fails.                                              *)
ProxiedHttp ==
    /\ Answered /\ IsProxy(req) /\ req.path[3] # sLocal /\ Passed(req)
    /\ HasId(devicesFile, req.path[3])
    /\ devicesFile[FindIndex(devicesFile, req.path[3])].enabled
    /\ ~Truthy(devicesFile[FindIndex(devicesFile, req.path[3])].sshHost)

StatusOfRemote(outcome) ==
    IF outcome = "ok" THEN 200 ELSE IF outcome = "notfound" THEN 404 ELSE 500

OneRequestPassedThrough ==
    LET device == devicesFile[FindIndex(devicesFile, req.path[3])]
    IN  /\ Len(net) = 1 /\ net[1].kind = "fetch"
        /\ net[1].method = req.method
        /\ net[1].url = device.url \o sApiPfx \o JoinPath(SubSeq(req.path, 4, Len(req.path)))
        /\ DOMAIN net[1].query =
              DOMAIN req.query \cup (IF req.qtoken # Undef THEN {"token"} ELSE {})
        /\ \A k \in DOMAIN net[1].query :
              net[1].query[k] = IF k = "token" THEN req.qtoken ELSE req.query[k]
        /\ net[1].host = Undef
        /\ got = "throw" => (res.status = 502 /\ DOMAIN res.body = {"error"})
        /\ got # "throw" => (res.status = StatusOfRemote(got) /\ res.body = [remote |-> got])

C17_OneRequestPerCall ==
    ProxiedHttp => OneRequestPassedThrough

(* C17, amended: the same for an enabled HTTP device whose stored url is an  *)
(* absolute URL; when the stored url is not one (an update stores any        *)
(* string), the router answers 500 and starts no outbound request.           *)
C17_OneRequestWhenUrlValid ==
    ProxiedHttp =>
        LET device == devicesFile[FindIndex(devicesFile, req.path[3])]
        IN  IF IsAbsoluteUrl(device.url) THEN OneRequestPassedThrough
            ELSE res.status = 500 /\ net = <<>>

C17_Witness ==
    /\ ProxiedHttp /\ got = "notfound" /\ res.status = 404
    /\ req.method = "POST" /\ Len(net) = 1 /\ net[1].method = "POST"
    /\ AUTH_ENABLED

(* C18, as stated: for an enabled SSH device a request for an operation      *)
(* that has no SSH implementation (recent, upload, ...) is answered with a   *)
(* benign success, not an error status, and starts no SSH process.           *)
SshProxied ==
    /\ Answered /\ IsProxy(req) /\ Len(req.path) = 4 /\ req.path[3] # sLocal
    /\ HasId(devicesFile, req.path[3])
    /\ devicesFile[FindIndex(devicesFile, req.path[3])].enabled
    /\ Truthy(devicesFile[FindIndex(devicesFile, req.path[3])].sshHost)

ReadOps == {segFiles, segSearch, segPreview, segInfo, segDownload}
WriteOps == {segMkdir, segTouch, segRename, segDelete, segSave, segDuplicate}

\* the request names an operation that the SSH branch implements
Implemented ==
    \/ req.method = "GET" /\ req.path[4] \in ReadOps
    \/ req.method = "POST" /\ req.path[4] \in WriteOps

C18_UnsupportedIsBenign ==
    (SshProxied /\ ~Implemented) =>
        res.status = 200 /\ "error" \notin DOMAIN res.body /\ net = <<>>

(* C18, amended: of the operations without an SSH implementation only        *)
(* recent is answered with an empty success ({files: []}); every other one   *)
(* (upload, a known operation under another method, ...) is answered 400     *)
(* with an error; none of them starts an SSH process.                        *)
C18_OnlyRecentIsBenign ==
    (SshProxied /\ ~Implemented) =>
        /\ net = <<>>
        /\ IF req.path[4] = segRecent
           THEN res.status = 200 /\ res.body = [files |-> <<>>]
           ELSE res.status = 400 /\ DOMAIN res.body = {"error"}

C18_Witness ==
    /\ SshProxied /\ req.path[4] = segUpload /\ req.method = "POST"
    /\ res.status = 400 /\ net = <<>>

(* C19: for an enabled SSH device a delete whose path designates the remote  *)
(* root itself, an empty path in particular, is refused with an error and    *)
(* no rm -rf is sent to the remote host.                                     *)
C19_RootDeleteRefused ==
    (/\ SshProxied /\ req.method = "POST" /\ req.path[4] = segDelete
     /\ Field(req.body, "path") = <<>>)
    => /\ res.status >= 400
       /\ \A i \in 1..Len(net) : net[i].cmd # "rm -rf"

(* C20, as stated: when the remote command of an operation on an SSH device  *)
(* fails (non-zero exit code or timeout) the answer is 502 with an error     *)
(* string, never a success.                                                  *)
CommandFailed == SshProxied /\ Implemented /\ net # <<>> /\ got # "ok"

OneMode(d) == (d.url # <<>>) # Truthy(d.sshHost)

C21_OneMode ==
    \A i \in 1..Len(devicesFile) : OneMode(devicesFile[i])

(* C21, amended: every device that an add writes has exactly one connection  *)
(* mode; an update assigns the url of its payload to the device whatever its *)
(* mode and leaves sshHost as loaded, so an SSH device can be given a url as *)
(* well.                                                                     *)
C21_OneModeWhenAdded ==
    [][/\ (IsPostDevices(req') /\ res'.status = 200) =>
             (devicesFile' # <<>> /\ OneMode(devicesFile'[Len(devicesFile')]))
       /\ (IsPutDevice(req') /\ res'.status = 200) =>
             \E i \in 1..Len(pending) :
                /\ pending[i].op = "update" /\ pending[i].r = req'
                /\ pending' = RemoveAt(pending, i)
                /\ \A j \in 1..Len(devicesFile') :
                      /\ devicesFile'[j].sshHost = pending[i].devices[j].sshHost
                      /\ (devicesFile'[j].id = req'.path[3] /\ "url" \in DOMAIN req'.body)
                            => devicesFile'[j].url = StripTrailingSlashes(req'.body.url)]_vars

C21_Witness ==
    /\ IsPutDevice(req) /\ res.status = 200
    /\ \E i \in 1..Len(devicesFile) :
          /\ devicesFile[i].id = req.path[3]
          /\ devicesFile[i].sshHost = hAB /\ devicesFile[i].url = uA

(* C22, as stated: a combo create without a name, or whose deviceIds is      *)
(* missing, not an array or empty, is answered 400; a name whose slug is the *)
(* id of an existing combo is answered 409; in both cases the settings are   *)
(* unchanged.  Otherwise the combo is stored with id = slug(name) and the    *)
(* given deviceIds.  Combo ids are pairwise distinct, and a delete removes   *)
(* exactly the combo with the id (404 and no change when there is none).     *)
BadComboPayload(body) ==
    \/ ~Truthy(Field(body, "name"))
    \/ Field(body, "deviceIds") = Undef
    \/ Field(body, "deviceIds") = Obj
    \/ Field(body, "deviceIds") = <<>>

ComboIds(settings) == {settings.comboViews[i].id : i \in 1..Len(settings.comboViews)}

\* the step answers a combo create as a create that yields this id must be
CreatedAs(id) ==
    LET body == req'.body
    IN  IF id \in ComboIds(settingsFile)
        THEN res'.status = 409 /\ settingsFile' = settingsFile
        ELSE /\ res'.status = 200
             /\ settingsFile' =
                   [settingsFile EXCEPT !.comboViews =
                       Append(@, [id |-> id, name |-> body.name,
                                  icon |-> IF Truthy(Field(body, "icon")) THEN body.icon
                                           ELSE sFolderIcon,
                                  deviceIds |-> body.deviceIds])]

CombosDistinct ==
    \A i, j \in 1..Len(settingsFile.comboViews) :
        settingsFile.comboViews[i].id = settingsFile.comboViews[j].id => i = j

ComboDeleteExact ==
    IsDeleteCombo(req') =>
        IF req'.path[3] \in ComboIds(settingsFile)
        THEN /\ res'.status = 200
             /\ settingsFile' =
                   [settingsFile EXCEPT !.comboViews =
                       SelectSeq(@, LAMBDA v : v.id # req'.path[3])]
             /\ Len(settingsFile'.comboViews) = Len(settingsFile.comboViews) - 1
        ELSE res'.status = 404 /\ settingsFile' = settingsFile

C22_ComboIdIsSlug ==
    /\ []CombosDistinct
    /\ [][/\ IsPostCombos(req') =>
                IF BadComboPayload(req'.body)
                THEN res'.status = 400 /\ settingsFile' = settingsFile
                ELSE CreatedAs(Slugify(req'.body.name))
          /\ ComboDeleteExact]_vars

(* C22, amended: the same, except that the id is slug(name) only when the    *)
(* slug is not empty; a name without a letter or digit gets the id           *)
(* "combo-<timestamp>", and 409 is answered when that id is taken.           *)
C22_ComboIdIsSlugOrStamp ==
    /\ []CombosDistinct
    /\ [][/\ IsPostCombos(req') =>
                IF BadComboPayload(req'.body)
                THEN res'.status = 400 /\ settingsFile' = settingsFile
                ELSE IF Slugify(req'.body.name) # <<>>
                THEN CreatedAs(Slugify(req'.body.name))
                ELSE \E now \in 1..MaxNow : CreatedAs(sComboPfx \o <<ToString(now)>>)
          /\ ComboDeleteExact]_vars

C22_Witness ==
    /\ IsPostCombos(req) /\ res.status = 409 /\ req.body.name = nAb2
    /\ Len(settingsFile.comboViews) = 2
    /\ settingsFile.comboViews[1].id = sComboPfx \o <<"1">>
    /\ settingsFile.comboViews[2].id = idAB

(* C23, as stated: the deviceIds of a stored combo is never empty.           *)
C23_NeverEmpty ==
    \A i \in 1..Len(settingsFile.comboViews) :
        settingsFile.comboViews[i].deviceIds # <<>>

(* C23, amended: deviceIds is not empty when a combo is created, and no      *)
(* request other than an update of that combo changes it; an update stores   *)
(* the deviceIds of its payload as it is, the empty list included.           *)
C23_NonEmptyWhenCreated ==
    [][/\ (IsPostCombos(req') /\ res'.status = 200) =>
             LET n == Len(settingsFile'.comboViews)
             IN  /\ n > 0
                 /\ settingsFile'.comboViews[n].deviceIds # Undef
                 /\ settingsFile'.comboViews[n].deviceIds # Obj
                 /\ settingsFile'.comboViews[n].deviceIds # <<>>
       /\ (IsPutCombo(req') /\ res'.status = 200) =>
             \E i \in 1..Len(settingsFile'.comboViews) :
                /\ settingsFile'.comboViews[i].id = req'.path[3]
                /\ "deviceIds" \in DOMAIN req'.body =>
                      settingsFile'.comboViews[i].deviceIds = req'.body.deviceIds
                /\ "deviceIds" \notin DOMAIN req'.body =>
                      settingsFile'.comboViews[i].deviceIds = settingsFile.comboViews[i].deviceIds
       /\ \A i \in 1..Len(settingsFile.comboViews) :
             \A j \in 1..Len(settingsFile'.comboViews) :
                (/\ settingsFile'.comboViews[j].id = settingsFile.comboViews[i].id
                 /\ ~(IsPutCombo(req') /\ req'.path[3] = settingsFile.comboViews[i].id))
                => settingsFile'.comboViews[j].deviceIds = settingsFile.comboViews[i].deviceIds]_vars

C23_Witness ==
    /\ IsPutCombo(req) /\ res.status = 200 /\ req.body = [deviceIds |-> <<>>]
    /\ Len(settingsFile.comboViews) = 1
    /\ settingsFile.comboViews[1].deviceIds = <<>>
    /\ settingsFile.comboViews[1].name = nAB

(* C24: device add, update and remove never change settings.json; combo and  *)
(* settings requests never change devices.json; removing a device leaves     *)
(* the deviceIds of every combo as they are, also when they name the removed *)
(* id; a combo is created or updated with ids that are not registered.       *)
DeviceRequest(r) == IsGetDevices(r) \/ IsPostDevices(r) \/ IsPutDevice(r) \/ IsDeleteDevice(r)

SettingsRequest(r) ==
    \/ IsGetSettings(r) \/ IsPutSettings(r)
    \/ IsGetCombos(r) \/ IsPostCombos(r) \/ IsPutCombo(r) \/ IsDeleteCombo(r)

C24_StoresIndependent ==
    [][/\ DeviceRequest(req') => settingsFile' = settingsFile
       /\ SettingsRequest(req') => devicesFile' = devicesFile
       /\ (/\ IsPostCombos(req') /\ ~BadComboPayload(req'.body)
           /\ Slugify(req'.body.name) # <<>>
           /\ Slugify(req'.body.name) \notin ComboIds(settingsFile))
          => (res'.status = 200 /\ settingsFile' # settingsFile)]_vars

C24_Witness ==
    /\ IsDeleteDevice(req) /\ res.status = 200 /\ req.path[3] = idMac
    /\ devicesFile = <<>>
    /\ Len(settingsFile.comboViews) = 1
    /\ settingsFile.comboViews[1].deviceIds = <<idMac, idNone>>

(* C25: a settings update changes only those of localName and localIcon that *)
(* its body holds (an empty string clears the field), leaves the other field *)
(* and comboViews as they are whatever else the body holds, and the list     *)
(* reports the resulting name and icon (the defaults when cleared) for the   *)
(* local device.                                                             *)
MergedField(f) ==
    IF f \in DOMAIN req'.body
    THEN (IF req'.body[f] = <<>> THEN Undef ELSE req'.body[f])
    ELSE settingsFile[f]

C25_SettingsPartialMerge ==
    /\ [][IsPutSettings(req') =>
             /\ res'.status = 200
             /\ settingsFile'.localName = MergedField("localName")
             /\ settingsFile'.localIcon = MergedField("localIcon")
             /\ settingsFile'.comboViews = settingsFile.comboViews
             /\ DOMAIN settingsFile' = DOMAIN settingsFile
             /\ res'.body.settings = settingsFile']_vars
    /\ []((Answered /\ IsGetDevices(req) /\ res.status = 200) =>
             /\ res.body.devices[1].name =
                   IF settingsFile.localName \notin {Undef, <<>>} THEN settingsFile.localName
                   ELSE sHostname
             /\ res.body.devices[1].icon =
                   IF settingsFile.localIcon \notin {Undef, <<>>} THEN settingsFile.localIcon
                   ELSE sDefaultIcon)

C25_Witness ==
    /\ IsPutSettings(req) /\ res.status = 200
    /\ req.body = [localName |-> nAB, comboViews |-> <<>>]
    /\ settingsFile.localName = nAB /\ settingsFile.localIcon = sIcon
    /\ Len(settingsFile.comboViews) = 2

(* C28: writers of the same file are not mutually excluded and the last      *)
(* writer wins: a handler that loaded the file before an await saves, after  *)
(* it, exactly its own change applied to the file as it loaded it, so what   *)
(* other requests saved in between (an added or removed device, a renamed    *)
(* or removed combo, a changed localName) is absent although they were       *)
(* answered success.                                                         *)
SavedFromSnapshot(p) ==
    IF p.op = "update"
    THEN /\ devicesFile' = [p.devices EXCEPT ![p.idx] = Overwritten(@, p.r.body)]
         /\ settingsFile' = settingsFile
    ELSE IF p.op = "comboUpdate"
    THEN /\ settingsFile' =
               [p.settings EXCEPT !.comboViews[p.idx] =
                   [f \in DOMAIN @ |-> IF f \in DOMAIN p.r.body /\ f # "id"
                                       THEN p.r.body[f] ELSE @[f]]]
         /\ devicesFile' = devicesFile
    ELSE /\ Len(devicesFile') = Len(p.devices) + 1
         /\ SubSeq(devicesFile', 1, Len(p.devices)) = p.devices
         /\ devicesFile'[Len(devicesFile')].id = p.id
         /\ settingsFile' = settingsFile

C28_LastWriterWins ==
    [][\A i \in 1..Len(pending) :
          (pending' = RemoveAt(pending, i) /\ req' = pending[i].r /\ res'.status = 200)
          => SavedFromSnapshot(pending[i])]_vars

C28_Witness ==
    /\ IsPutCombo(req) /\ res.status = 200
    /\ settingsFile.localName = Undef
    /\ Len(pending) = 1 /\ pending[1].op = "comboUpdate"
    /\ pending[1].settings.localName = nAB

(* C26: every local handler answers 400, without touching the filesystem     *)
(* target, for a requested path that resolves outside the root directory:    *)
(* by ".." traversal, by a sibling directory whose name starts with the      *)
(* root's name, or through a symbolic link inside the root that leads        *)
(* outside; only the root and paths strictly inside it are accepted.         *)
InsideRoot(p) == p = ROOT_DIR \/ StartsWith(p, ROOT_DIR \o <<"/">>)

C26_PathSandbox ==
    (Answered /\ IsLocalFileApi(req) /\ Passed(req)) =>
        /\ \A i \in 1..Len(touched) : InsideRoot(touched[i])
        /\ touched = <<>> => res.status = 400
        /\ res.status = 400 => touched = <<>>

(* C27: a call of sshExec / sshExecBinary resolves exactly once and no later *)
(* than its timeout: when the child has not closed as the timer fires, the   *)
(* child is killed and the result has code 124, and a close event after      *)
(* that does not change the result; when the child closes first the timer    *)
(* is cancelled and the result has the child's exit code, 1 when it is null. *)
Calling == pending # <<>> /\ pending[1].op = "exec"

C27_ResolvesOnceInTime ==
    /\ [](Calling =>
            LET e == pending[1]
            IN  /\ e.elapsed > e.timeoutMs => e.result # <<>>
                /\ e.result # <<>> => e.settledAt <= e.timeoutMs
                /\ e.timer = "fired" =>
                      (e.proc # "running" /\ e.result # <<>> /\ e.result[1].code = 124)
                /\ (e.proc = "closed" /\ e.timer # "fired") =>
                      /\ e.timer = "cleared"
                      /\ e.result # <<>>
                      /\ e.result[1].code = IF e.closeCode = <<>> THEN 1 ELSE e.closeCode[1]
                /\ (e.result = <<>>) = (e.proc = "running" /\ e.timer = "armed"))
    /\ [][(Calling /\ pending[1].result # <<>> /\ pending' # <<>>)
             => pending'[1].result = pending[1].result]_vars

C27_Witness ==
    /\ Calling /\ pending[1].timer = "fired" /\ pending[1].proc = "closed"
    /\ pending[1].closeCode = <<0>> /\ pending[1].result[1].code = 124
    /\ pending[1].resolves = 2 /\ pending[1].binary

(* C29: a failed device add leaves the registry unchanged and is classified  *)
(* in a fixed order: a payload without sshHost and without name or url is    *)
(* answered 400; otherwise an id that is "local" or registered is answered   *)
(* 409 with no fetch and no ssh call made; otherwise a probe that failed or  *)
(* timed out is answered 502; the device is written only in the step that    *)
(* follows a successful probe.                                               *)
AddIds(body) == {DeviceId(AddName(body), now) : now \in 1..MaxNow}

Collides(id) == id = sLocal \/ HasId(devicesFile, id)

C30_RecentBounded ==
    /\ [](/\ Len(recentFiles) <= MAX_RECENT
          /\ \A i, j \in 1..Len(recentFiles) :
                recentFiles[i].path = recentFiles[j].path => i = j)
    /\ [][IsPostRecent(req') =>
            LET p == Field(req'.body, "path")
                others == SelectSeq(recentFiles, LAMBDA f : f.path # p)
                kept == Len(recentFiles') - 1
            IN  /\ Len(recentFiles') >= 1
                /\ recentFiles'[1].path = p
                /\ kept <= Len(others)
                /\ Tail(recentFiles') = SubSeq(others, 1, kept)
                /\ kept < Len(others) => Len(recentFiles') = MAX_RECENT]_vars

C30_Witness ==
    /\ IsPostRecent(req) /\ res.status = 200
    /\ Len(recentFiles) = MAX_RECENT
    /\ recentFiles[1].path = pZip
    /\ recentFiles[MAX_RECENT].path = Undef

====
